---- MODULE Spec2Model ----
(***************************************************************************)
(* Model of the margin-note placement engine of src/highlights.py          *)
(* (highlight_and_margin_comment_pdf and its helpers).                     *)
(*                                                                         *)
(* Lengths are integers: one model unit is 0.005 document units, so that   *)
(* the midpoints 0.5*(a+b) the code takes and the two decimals round(.,2)  *)
(* keeps are both exact.  Note texts are sequences of one-character        *)
(* strings.  A None of the code is the empty sequence, a value v that may  *)
(* be None is <<v>>.                                                       *)
(***************************************************************************)
EXTENDS Integers, Sequences, FiniteSets, TLC

\* model units per document unit (0.005 each: half of the 0.01 of round(x, 2))
PT == 2 * 100

Max(a, b) == IF a >= b THEN a ELSE b
Min(a, b) == IF a <= b THEN a ELSE b
Abs(a) == IF a >= 0 THEN a ELSE -a
\* 0.5 * x
Half(x) == x \div 2

None == <<>>
Some(v) == <<v>>
IsNone(o) == Len(o) = 0
The(o) == o[1]

(***************************************************************************)
(* Rectangles (fitz.Rect as the engine uses it)                            *)
(***************************************************************************)
Rect(x0, y0, x1, y1) == [x0 |-> x0, y0 |-> y0, x1 |-> x1, y1 |-> y1]
\* a rectangle given in document units
RectPt(x0, y0, x1, y1) == Rect(x0 * PT, y0 * PT, x1 * PT, y1 * PT)
Width(r) == Max(0, r.x1 - r.x0)
Height(r) == Max(0, r.y1 - r.y0)
IsEmpty(r) == r.x0 >= r.x1 \/ r.y0 >= r.y1
MidY(r) == Half(r.y0 + r.y1)
MidX(r) == Half(r.x0 + r.x1)
\* rect + (a, b, c, d)
Grow(r, a, b, c, d) == Rect(r.x0 + a, r.y0 + b, r.x1 + c, r.y1 + d)

\* r.intersects(rr): the intersection is non-empty (touching edges do not intersect)
Intersects(a, b) ==
    /\ ~IsEmpty(a)
    /\ ~IsEmpty(b)
    /\ Max(a.x0, b.x0) < Min(a.x1, b.x1)
    /\ Max(a.y0, b.y0) < Min(a.y1, b.y1)

\* (br & r).get_area()
InterArea(a, b) ==
    IF Intersects(a, b)
    THEN (Min(a.x1, b.x1) - Max(a.x0, b.x0)) * (Min(a.y1, b.y1) - Max(a.y0, b.y0))
    ELSE 0

\* br.contains(point)
ContainsPoint(r, px, py) == px >= r.x0 /\ px < r.x1 /\ py >= r.y0 /\ py < r.y1

_intersects_any(r, rects) == \E i \in 1..Len(rects) : Intersects(r, rects[i])

(***************************************************************************)
(* Strings                                                                 *)
(***************************************************************************)
IsSpace(c) == c \in {" ", "\n", "\t"}
Lower(c) == CASE c = "A" -> "a" [] c = "B" -> "b" [] c = "C" -> "c" [] OTHER -> c
LowerStr(s) == [i \in 1..Len(s) |-> Lower(s[i])]

RECURSIVE SplitFrom(_, _, _, _)
SplitFrom(s, i, cur, acc) ==
    IF i > Len(s) THEN (IF cur = <<>> THEN acc ELSE Append(acc, cur))
    ELSE IF IsSpace(s[i])
         THEN SplitFrom(s, i + 1, <<>>, IF cur = <<>> THEN acc ELSE Append(acc, cur))
         ELSE SplitFrom(s, i + 1, Append(cur, s[i]), acc)
\* s.split()
Split(s) == SplitFrom(s, 1, <<>>, <<>>)

RECURSIVE JoinSp(_)
\* " ".join(ws)
JoinSp(ws) ==
    IF Len(ws) = 0 THEN <<>>
    ELSE IF Len(ws) = 1 THEN ws[1]
    ELSE ws[1] \o <<" ">> \o JoinSp(Tail(ws))

RECURSIVE SplitLinesFrom(_, _, _, _)
SplitLinesFrom(s, i, cur, acc) ==
    IF i > Len(s) THEN (IF cur = <<>> THEN acc ELSE Append(acc, cur))
    ELSE IF s[i] = "\n"
         THEN SplitLinesFrom(s, i + 1, <<>>, Append(acc, cur))
         ELSE SplitLinesFrom(s, i + 1, Append(cur, s[i]), acc)
\* text.splitlines()
SplitLines(s) == SplitLinesFrom(s, 1, <<>>, <<>>)

\* norm_ct = " ".join(ctext.split()).lower()
NormCt(ctext) == LowerStr(JoinSp(Split(ctext)))

\* round(v, 2): to the nearest 0.01 (two model units), a tie to the even hundredth
Round2(v) ==
    LET q == v \div 2
        odd == v - 2 * q
    IN  IF odd = 0 THEN v
        ELSE IF q % 2 = 0 THEN 2 * q ELSE 2 * (q + 1)

\* a uid that leaves the page out of the hashed string
_make_uid_of_text_and_center(page_index, norm_ct, cx, cy) == <<0, norm_ct, Round2(cx), Round2(cy)>>

\* the 12 hex digits of sha1(f"{page_index}|{norm_ct}|{round(cx,2)}|{round(cy,2)}"),
\* the digest taken as injective on its input
_make_uid(page_index, norm_ct, cx, cy) == <<page_index, norm_ct, Round2(cx), Round2(cy)>>

(***************************************************************************)
(* Text Wrapper                                                            *)
(***************************************************************************)
\* get_text_length(s, fontname, fontsize): every character half a font size wide,
\* the width the engine itself assumes when the metrics call fails
GetLen(s, fontsize) == Half(fontsize) * Len(s)

\* a fits(s) that leaves the tightness factor out
FitsUntightened(s, fontsize, tightness, max_w) == GetLen(s, fontsize) <= max_w

\* fits(s): get_len(s) * tightness <= max_w, the tightness in hundredths
Fits(s, fontsize, tightness, max_w) == GetLen(s, fontsize) * tightness <= max_w * 100

RECURSIVE WrapWords(_, _, _, _, _, _, _)
\* the greedy loop over words[1:] of one paragraph
WrapWords(words, i, cur, acc, fontsize, tightness, max_w) ==
    IF i > Len(words) THEN Append(acc, cur)
    ELSE LET trial == cur \o <<" ">> \o words[i]
         IN  IF Fits(trial, fontsize, tightness, max_w)
             THEN WrapWords(words, i + 1, trial, acc, fontsize, tightness, max_w)
             ELSE WrapWords(words, i + 1, words[i], Append(acc, cur), fontsize, tightness, max_w)

RECURSIVE WrapParas(_, _, _, _, _, _)
WrapParas(paras, i, acc, fontsize, tightness, max_w) ==
    IF i > Len(paras) THEN acc
    ELSE LET words == Split(paras[i])
         IN  IF Len(words) = 0
             THEN WrapParas(paras, i + 1, Append(acc, <<>>), fontsize, tightness, max_w)
             ELSE WrapParas(paras, i + 1,
                            WrapWords(words, 2, words[1], acc, fontsize, tightness, max_w),
                            fontsize, tightness, max_w)

\* the paragraphs the wrapper loops over: text.splitlines() or [""]
Paragraphs(split) == IF Len(split) = 0 THEN << <<>> >> ELSE split

\* the wrapped lines of _measure_height_smart
WrapLines(text, width, fontsize, tightness) ==
    WrapParas(Paragraphs(SplitLines(text)), 1, <<>>, fontsize, tightness, Max(PT, width))

\* the height of wrapped lines: max(2 * fontsize, len(lines) * line_h)
LinesHeight(lines, fontsize, line_height_factor) ==
    [lines |-> lines,
     height |-> Max(2 * fontsize, Len(lines) * ((line_height_factor * fontsize) \div 100))]

\* _measure_height_smart: [lines, height]; line_height_factor in hundredths
_measure_height_smart(text, width, fontsize, line_height_factor, tightness) ==
    LinesHeight(WrapLines(text, width, fontsize, tightness), fontsize, line_height_factor)

(***************************************************************************)
(* Occurrence Finder, Block Resolver                                       *)
(***************************************************************************)
RoundKey(r) == <<Round2(r.x0), Round2(r.y0), Round2(r.x1), Round2(r.y1)>>

RECURSIVE DedupFrom(_, _, _, _)
DedupFrom(rects, i, seen, out) ==
    IF i > Len(rects) THEN out
    ELSE IF RoundKey(rects[i]) \in seen
         THEN DedupFrom(rects, i + 1, seen, out)
         ELSE DedupFrom(rects, i + 1, seen \cup {RoundKey(rects[i])}, Append(out, rects[i]))
_dedup_rects(rects) == DedupFrom(rects, 1, {}, <<>>)

\* the padded rectangles of the blocks that carry text
_text_rects_padded(blocks, pad) ==
    LET with_text == SelectSeq(blocks, LAMBDA b : b.text)
    IN  [i \in 1..Len(with_text) |-> Grow(with_text[i].r, -pad, -pad, pad, pad)]

\* whether a block is a candidate for the hit, and the area they share
BlockMatches(br, r) == ContainsPoint(br, MidX(r), MidY(r)) \/ Intersects(br, r)

\* best is <<idx, rect, area>> or None; the block replaces it when area >= best_area
Better(best, i, br, area) ==
    IF IsNone(best) \/ area >= The(best)[3] THEN Some(<<i - 1, br, area>>) ELSE best

RECURSIVE BestBlock(_, _, _, _)
\* the loop of _block_for_rect_idx
BestBlock(blocks, i, r, best) ==
    IF i > Len(blocks) THEN best
    ELSE BestBlock(blocks, i + 1, r,
                   IF BlockMatches(blocks[i].r, r)
                   THEN Better(best, i, blocks[i].r, InterArea(blocks[i].r, r))
                   ELSE best)

\* the result for the best block: [idx, rect]; -1 and the padded hit when there is none
BlockResult(best, r) ==
    IF IsNone(best)
    THEN [idx |-> -1, rect |-> Grow(r, -3 * PT, -3 * PT, 3 * PT, 3 * PT)]
    ELSE [idx |-> The(best)[1], rect |-> The(best)[2]]

\* _block_for_rect_idx: block indices count from 0
_block_for_rect_idx(r, blocks) == BlockResult(BestBlock(blocks, 1, r, None), r)

(***************************************************************************)
(* Free-Space Scanner, Gap Chooser                                         *)
(***************************************************************************)
\* tuple order of the two keys of <<k1, k2, value>>
KeyLE(a, b) == a[1] < b[1] \/ (a[1] = b[1] /\ a[2] <= b[2])

RECURSIVE InsertKeyed(_, _)
\* x put behind every element that is not greater: one step of a stable sort
InsertKeyed(sorted, x) ==
    IF Len(sorted) = 0 THEN <<x>>
    ELSE IF KeyLE(sorted[Len(sorted)], x) THEN Append(sorted, x)
    ELSE Append(InsertKeyed(SubSeq(sorted, 1, Len(sorted) - 1), x), sorted[Len(sorted)])

RECURSIVE SortKeyed(_, _, _)
SortKeyed(s, i, acc) ==
    IF i > Len(s) THEN acc ELSE SortKeyed(s, i + 1, InsertKeyed(acc, s[i]))

\* sorted(...) of a list of <<k1, k2, value>>: the values in key order, ties in list order
Sorted(keyed) == LET t == SortKeyed(keyed, 1, <<>>) IN [i \in 1..Len(t) |-> t[i][3]]

RECURSIVE WordIntervals(_, _, _, _, _, _)
WordIntervals(words, i, y_top, y_bot, pad, acc) ==
    IF i > Len(words) THEN acc
    ELSE LET w == words[i]
         IN  IF w.y1 < y_top \/ w.y0 > y_bot
             THEN WordIntervals(words, i + 1, y_top, y_bot, pad, acc)
             ELSE WordIntervals(words, i + 1, y_top, y_bot, pad,
                                Append(acc, <<w.x0 - pad, w.x1 + pad>>))

RECURSIVE MergeIntervals(_, _, _)
MergeIntervals(iv, i, merged) ==
    IF i > Len(iv) THEN merged
    ELSE IF Len(merged) = 0 \/ iv[i][1] > merged[Len(merged)][2]
         THEN MergeIntervals(iv, i + 1, Append(merged, iv[i]))
         ELSE MergeIntervals(iv, i + 1,
                [merged EXCEPT ![Len(merged)] = <<@[1], Max(@[2], iv[i][2])>>])

RECURSIVE GapsFrom(_, _, _, _, _, _)
GapsFrom(merged, i, cur, L, R, gaps) ==
    IF i > Len(merged) THEN (IF cur < R THEN Append(gaps, <<cur, R>>) ELSE gaps)
    ELSE GapsFrom(merged, i + 1, Max(cur, merged[i][2]), L, R,
                  IF merged[i][1] > cur
                  THEN Append(gaps, <<Max(L, cur), Min(R, merged[i][1])>>)
                  ELSE gaps)

\* intervals.sort()
SortPairs(raw) == Sorted([i \in 1..Len(raw) |-> <<raw[i][1], raw[i][2], raw[i]>>])

\* _free_gaps_at_y(page, y_center, pad=3.0, window=12.0)
_free_gaps_at_y(words, page_box, y_center) ==
    GapsFrom(MergeIntervals(SortPairs(WordIntervals(words, 1, y_center - 12 * PT,
                                                    y_center + 12 * PT, 3 * PT, <<>>)),
                            1, <<>>),
             1, page_box.x0 + 3 * PT, page_box.x0 + 3 * PT, page_box.x1 - 3 * PT, <<>>)

\* dist(g) of _choose_gap_for_y; 1e9 document units stand for "beside neither edge"
GapDist(g, bx0, bx1) ==
    IF g[2] <= bx0 THEN bx0 - g[2]
    ELSE IF g[1] >= bx1 THEN g[1] - bx1
    ELSE 1000000000

\* a final width that fills the gap
FinalWidthOfGap(avail, target_w, min_w) == Min(target_w, Max(min_w, avail))

\* final_w = min(target_w, max(min_w, avail - 6.0))
FinalWidth(avail, target_w, min_w) == Min(target_w, Max(min_w, avail - 6 * PT))

RECURSIVE FirstWide(_, _, _, _)
\* the first gap at least min_w + 6 wide, with its final width: <<g, final_w>> or None
FirstWide(ordered, i, target_w, min_w) ==
    IF i > Len(ordered) THEN None
    ELSE IF ordered[i][2] - ordered[i][1] >= min_w + 6 * PT
         THEN Some(<<ordered[i], FinalWidth(ordered[i][2] - ordered[i][1], target_w, min_w)>>)
         ELSE FirstWide(ordered, i + 1, target_w, min_w)

\* sorted(gaps, key=lambda g: (dist(g), -(g[1]-g[0])))
OrderGaps(gaps, bx0, bx1) ==
    Sorted([i \in 1..Len(gaps) |->
              <<GapDist(gaps[i], bx0, bx1), -(gaps[i][2] - gaps[i][1]), gaps[i]>>])

\* a choice that knows no side
SideGapsNone(ordered, prefer_side, bx0, bx1) == <<>>

\* the gaps on the preferred side, when the side is left or right and there are any
SideGaps(ordered, prefer_side, bx0, bx1) ==
    IF prefer_side \in {"left", "right"}
    THEN SelectSeq(ordered, LAMBDA g : \/ (prefer_side = "left" /\ g[2] <= bx0)
                                       \/ (prefer_side = "right" /\ g[1] >= bx1))
    ELSE <<>>

\* if side_g: ordered = side_g
PreferSideGaps(ordered, side_g) == IF Len(side_g) > 0 THEN side_g ELSE ordered

\* _choose_gap_for_y on the gaps of the height: <<g, final_w>> or None
ChooseGap(gaps, blk_rect, prefer_side, target_w, min_w) ==
    IF Len(gaps) = 0 THEN None
    ELSE FirstWide(PreferSideGaps(OrderGaps(gaps, blk_rect.x0, blk_rect.x1),
                                  SideGaps(OrderGaps(gaps, blk_rect.x0, blk_rect.x1),
                                           prefer_side, blk_rect.x0, blk_rect.x1)),
                   1, target_w, min_w)

_choose_gap_for_y(words, page_box, blk_rect, cy, prefer_side, target_w, min_w) ==
    ChooseGap(_free_gaps_at_y(words, page_box, cy), blk_rect, prefer_side, target_w, min_w)

RECURSIVE CenterCands(_, _, _, _, _, _, _)
\* the gaps around the page's center line that are wide enough, each with its final width
CenterCands(gaps, i, center_x, center_tol, target_w, min_w, acc) ==
    IF i > Len(gaps) THEN acc
    ELSE CenterCands(gaps, i + 1, center_x, center_tol, target_w, min_w,
            IF /\ Abs(Half(gaps[i][1] + gaps[i][2]) - center_x) <= center_tol
               /\ gaps[i][2] - gaps[i][1] >= min_w + 6 * PT
            THEN Append(acc, <<gaps[i], FinalWidth(gaps[i][2] - gaps[i][1], target_w, min_w)>>)
            ELSE acc)

RECURSIVE MaxByWidth(_, _, _)
\* max(center_cands, key=final_w): the first of the widest
MaxByWidth(cands, i, best) ==
    IF i > Len(cands) THEN best
    ELSE MaxByWidth(cands, i + 1, IF cands[i][2] > best[2] THEN cands[i] ELSE best)

\* the choice between the center candidates cc and the side-based choice
CenterFirst(gaps, cc, blk_rect, prefer_side, target_w, min_w) ==
    IF Len(gaps) = 0 THEN None
    ELSE IF Len(cc) > 0 THEN Some(MaxByWidth(cc, 2, cc[1]))
    ELSE ChooseGap(gaps, blk_rect, prefer_side, target_w, min_w)

\* _choose_gap_for_y_center_first on the gaps of the height
ChooseCenterFirst(gaps, page_box, blk_rect, prefer_side, target_w, min_w, center_tol) ==
    CenterFirst(gaps,
                CenterCands(gaps, 1, Half(page_box.x0 + page_box.x1), center_tol,
                            target_w, min_w, <<>>),
                blk_rect, prefer_side, target_w, min_w)

_choose_gap_for_y_center_first(words, page_box, blk_rect, cy, prefer_side, target_w, min_w, center_tol) ==
    ChooseCenterFirst(_free_gaps_at_y(words, page_box, cy), page_box, blk_rect, prefer_side,
                      target_w, min_w, center_tol)

\* the chooser _find_gap_nearby builds; g packs (prefer_side, target_w, min_w,
\* allow_center_gutter, center_tol)
Chooser(words, page_box, blk_rect, cy, g) ==
    IF g.allow_center_gutter
    THEN _choose_gap_for_y_center_first(words, page_box, blk_rect, cy, g.prefer_side,
                                        g.target_w, g.min_w, g.center_tol)
    ELSE _choose_gap_for_y(words, page_box, blk_rect, cy, g.prefer_side, g.target_w, g.min_w)

\* the chooser at a scanned height: heights in the 6-unit page margins are passed over
ChooserInside(words, page_box, blk_rect, cy, g) ==
    IF cy <= page_box.y0 + 6 * PT \/ cy >= page_box.y1 - 6 * PT THEN None
    ELSE Chooser(words, page_box, blk_rect, cy, g)

\* what the scan returns for the chooser's result at cy
Found(cy, chosen) == Some([cy |-> cy, cand |-> The(chosen)])

RECURSIVE ScanUp(_, _, _, _, _, _, _, _)
RECURSIVE ScanDown(_, _, _, _, _, _, _, _, _)
RECURSIVE ScanNext(_, _, _, _, _, _, _, _, _)
\* for delta in range(scan_step, max_scan + scan_step, scan_step): cy0 + delta first
ScanUp(words, page_box, blk_rect, cy0, g, delta, scan_step, max_scan) ==
    IF delta >= max_scan + scan_step THEN None
    ELSE ScanDown(words, page_box, blk_rect, cy0, g, delta, scan_step, max_scan,
                  ChooserInside(words, page_box, blk_rect, cy0 + delta, g))
ScanDown(words, page_box, blk_rect, cy0, g, delta, scan_step, max_scan, up) ==
    IF ~IsNone(up) THEN Found(cy0 + delta, up)
    ELSE ScanNext(words, page_box, blk_rect, cy0, g, delta, scan_step, max_scan,
                  ChooserInside(words, page_box, blk_rect, cy0 - delta, g))
ScanNext(words, page_box, blk_rect, cy0, g, delta, scan_step, max_scan, down) ==
    IF ~IsNone(down) THEN Found(cy0 - delta, down)
    ELSE ScanUp(words, page_box, blk_rect, cy0, g, delta + scan_step, scan_step, max_scan)

\* the scan after the chooser's result at cy0 itself
ScanFrom(words, page_box, blk_rect, cy0, g, scan_step, max_scan, first) ==
    IF ~IsNone(first) THEN Found(cy0, first)
    ELSE ScanUp(words, page_box, blk_rect, cy0, g, scan_step, scan_step, max_scan)

\* _find_gap_nearby: [cy, cand] with cand = <<gap, final_w>>, or None
_find_gap_nearby(words, page_box, blk_rect, cy0, g, scan_step, max_scan) ==
    ScanFrom(words, page_box, blk_rect, cy0, g, scan_step, max_scan,
             Chooser(words, page_box, blk_rect, cy0, g))

(***************************************************************************)
(* Band Packer                                                             *)
(***************************************************************************)
\* the round limit of the while loop of _place_in_band
BandRounds == 2000

\* a make(y_mid) that does not pull the rectangle back into the band
BandMakeUnclamped(band_rect, y_mid, w, h, pad) ==
    LET ya == Max(band_rect.y0 + pad, y_mid - Half(h))
    IN  Rect(band_rect.x0 + pad, ya, band_rect.x0 + pad + w, ya + h)

\* make(y_mid) of _place_in_band
BandMake(band_rect, y_mid, w, h, pad) ==
    LET ya == Max(band_rect.y0 + pad, y_mid - Half(h))
        y1 == Min(band_rect.y1 - pad, ya + h)
    IN  Rect(band_rect.x0 + pad, y1 - h, band_rect.x0 + pad + w, y1)

\* _place_in_band without its test against the text blocks
BandFreeOfNotes(band_rect, y_mid, w, h, placed, text_rects, pad) ==
    /\ ~(y_mid < band_rect.y0 + pad \/ y_mid > band_rect.y1 - pad)
    /\ ~_intersects_any(BandMake(band_rect, y_mid, w, h, pad), placed)

\* whether the candidate of y_mid is taken: y_mid in the band, no collision
BandFree(band_rect, y_mid, w, h, placed, text_rects, pad) ==
    /\ ~(y_mid < band_rect.y0 + pad \/ y_mid > band_rect.y1 - pad)
    /\ ~_intersects_any(BandMake(band_rect, y_mid, w, h, pad), placed)
    /\ ~_intersects_any(BandMake(band_rect, y_mid, w, h, pad), text_rects)

RECURSIVE BandRound(_, _, _, _, _, _, _, _, _)
\* the rounds k = 0, 1, ... of _place_in_band: y_center + k * step, then y_center - k * step
BandRound(k, band_rect, y_center, w, h, placed, text_rects, step, pad) ==
    IF k > BandRounds THEN None
    \* from here on both y_mid lie outside the band: every later round is skipped
    ELSE IF y_center + k * step > band_rect.y1 - pad
            /\ y_center - k * step < band_rect.y0 + pad THEN None
    ELSE IF BandFree(band_rect, y_center + k * step, w, h, placed, text_rects, pad)
         THEN Some(BandMake(band_rect, y_center + k * step, w, h, pad))
    ELSE IF BandFree(band_rect, y_center - k * step, w, h, placed, text_rects, pad)
         THEN Some(BandMake(band_rect, y_center - k * step, w, h, pad))
    ELSE BandRound(k + 1, band_rect, y_center, w, h, placed, text_rects, step, pad)

\* _place_in_band: the rectangle, or None
_place_in_band(band_rect, y_center, w, h, placed, text_rects, step, pad) ==
    IF w > Max(PT, Width(band_rect) - 2 * pad) \/ h > Max(PT, Height(band_rect) - 2 * pad)
    THEN None
    ELSE BandRound(0, band_rect, y_center, w, h, placed, text_rects, step, pad)

(***************************************************************************)
(* Steps of the per-hit loop of highlight_and_margin_comment_pdf           *)
(***************************************************************************)
\* d[k] of a defaultdict(list)
Get(d, k) == IF k \in DOMAIN d THEN d[k] ELSE <<>>
\* d[k].append(v)
Put(d, k, v) == [x \in DOMAIN d \cup {k} |-> IF x = k THEN Append(Get(d, k), v) ELSE d[x]]

\* comment_map.get(q, f"Note: {q}")
CommentFor(comment_map, q) ==
    IF q \in DOMAIN comment_map THEN comment_map[q]
    ELSE <<"N", "o", "t", "e", ":", " ", q>>

\* a merge that asks for the very same center
IsSameCenterHit(cx0, cy0, anchors, tol) ==
    \E i \in 1..Len(anchors) : cy0 = anchors[i][2] /\ cx0 = anchors[i][1]

\* the merge of duplicate occurrences: an anchor of the same text within tol in x and in y
IsDuplicateHit(cx0, cy0, anchors, tol) ==
    \E i \in 1..Len(anchors) :
        Abs(cy0 - anchors[i][2]) <= tol /\ Abs(cx0 - anchors[i][1]) <= tol

\* a scope test that knows the document-wide set only
ScopeRejectsDocumentOnly(dedupe_scope, norm_ct, pg_commented, dc_commented) ==
    dedupe_scope = "document" /\ norm_ct \in dc_commented

\* the page / document scope test made before any placement work
ScopeRejects(dedupe_scope, norm_ct, pg_commented, dc_commented) ==
    /\ dedupe_scope \in {"page", "document"}
    /\ \/ norm_ct \in pg_commented
       \/ (dedupe_scope = "document" /\ norm_ct \in dc_commented)

\* a nearest side that is the side with more room
PreferSideRoomier(side, page_box, r) ==
    IF side # "nearest" THEN side
    ELSE IF (page_box.x1 - r.x1) >= (r.x0 - page_box.x0) THEN "right" ELSE "left"

\* prefer = side if side != "nearest" else (...)
PreferSide(side, page_box, r) ==
    IF side # "nearest" THEN side
    ELSE IF (page_box.x1 - r.x1) <= (r.x0 - page_box.x0) THEN "right" ELSE "left"

\* a gap candidate that is taken wherever the scan found it
AcceptGapAnywhere(found, cy0, blk_rect, max_vertical_offset, within_block_pad) == found

\* the gap candidate that survives the too_far / out_of_block test
AcceptGap(found, cy0, blk_rect, max_vertical_offset, within_block_pad) ==
    IF IsNone(found) THEN None
    ELSE LET cy_used == The(found).cy
             too_far == Abs(cy_used - cy0) > max_vertical_offset
             out_of_block == ~(blk_rect.y0 - within_block_pad <= cy_used
                               /\ cy_used <= blk_rect.y1 + within_block_pad)
         IN  IF too_far \/ out_of_block THEN None ELSE found

\* a placement step that did not run
NotRun == [ran |-> FALSE, pos |-> None, wrapped |-> None]
\* a placement step that ran: the Band Packer's result with the wrapped lines
Ran(pos, lines) == [ran |-> TRUE, pos |-> pos, wrapped |-> Some(lines)]

\* _measure_height_smart(ctext, final_w - 2 * note_padding, ...) as every step calls it
Measure(ctext, final_w, cfg) ==
    _measure_height_smart(ctext, final_w - 2 * cfg.note_padding, cfg.note_fontsize,
                          cfg.line_height_factor, cfg.wrap_tightness)

\* a footer step entered whatever the gap search gave
FooterAlwaysEntered(cand, allow_column_footer) == allow_column_footer

\* whether the footer step is entered
FooterEntered(cand, allow_column_footer) == IsNone(cand) /\ allow_column_footer

\* avail_w of the footer band
FooterWidth(blk_rect, cfg) ==
    Max(0, (blk_rect.x1 - cfg.column_footer_side_pad)
           - (blk_rect.x0 + cfg.column_footer_side_pad))

\* the footer band: under the block, down to the page's bottom margin
FooterBand(blk_rect, page_box, cfg) ==
    Rect(blk_rect.x0 + cfg.column_footer_side_pad, blk_rect.y1 + cfg.column_footer_top_gap,
         blk_rect.x1 - cfg.column_footer_side_pad, page_box.y1 - 6 * PT)

\* a footer step that keeps a position however far from the hit it is
FooterUnlimited(pos, cy0, column_footer_max_offset) == pos

\* a footer position farther than column_footer_max_offset from the hit is dropped
FooterLimit(pos, cy0, column_footer_max_offset) ==
    IF ~IsNone(pos) /\ Abs(MidY(The(pos)) - cy0) > column_footer_max_offset THEN None ELSE pos

\* the Band Packer on the footer band for the measured note m
FooterPack(m, final_w, cy0, blk_rect, page_box, placed, text_rects, cfg) ==
    Ran(FooterLimit(_place_in_band(FooterBand(blk_rect, page_box, cfg),
                                   blk_rect.y1 + Half(m.height + 2 * cfg.note_padding)
                                       + cfg.column_footer_top_gap,
                                   final_w, m.height + 2 * cfg.note_padding,
                                   placed, text_rects, 6 * PT, 3 * PT),
                    cy0, cfg.column_footer_max_offset),
        m.lines)

\* the footer step for the width final_w
FooterFor(final_w, ctext, cy0, blk_rect, page_box, placed, text_rects, cfg) ==
    FooterPack(Measure(ctext, final_w, cfg), final_w, cy0, blk_rect, page_box, placed,
               text_rects, cfg)

\* the footer step: [ran, pos, wrapped]; the band is used when it is wide enough
FooterStep(ctext, cy0, blk_rect, page_box, placed, text_rects, cfg) ==
    IF FooterWidth(blk_rect, cfg) >= cfg.min_note_width + 6 * PT
    THEN FooterFor(FinalWidth(FooterWidth(blk_rect, cfg), cfg.note_width, cfg.min_note_width),
                   ctext, cy0, blk_rect, page_box, placed, text_rects, cfg)
    ELSE [ran |-> TRUE, pos |-> None, wrapped |-> None]

RECURSIVE MinY0(_, _, _)
MinY0(words, i, m) == IF i > Len(words) THEN m ELSE MinY0(words, i + 1, Min(m, words[i].y0))
RECURSIVE MaxY1(_, _, _)
MaxY1(words, i, m) == IF i > Len(words) THEN m ELSE MaxY1(words, i + 1, Max(m, words[i].y1))

\* the top and bottom bands of the fallback zone, above and below the page's words
ZoneBands(y_top, y_bot, page_box, fallback_zone, pad) ==
    (IF fallback_zone \in {"top", "both"}
     THEN <<Rect(page_box.x0 + pad, page_box.y0 + pad, page_box.x1 - pad, y_top - pad)>>
     ELSE <<>>)
    \o (IF fallback_zone \in {"bottom", "both"}
        THEN <<Rect(page_box.x0 + pad, y_bot + pad, page_box.x1 - pad, page_box.y1 - pad)>>
        ELSE <<>>)

\* bands.sort(key=lambda b: b.height, reverse=True); return bands[0]
TallestBand(bands) ==
    IF Len(bands) = 0 THEN None
    ELSE Some(Sorted([i \in 1..Len(bands) |-> <<-Height(bands[i]), 0, bands[i]>>])[1])

\* _fallback_band(page): the band, or None
_fallback_band(words, page_box, fallback_zone, note_fontsize, note_padding) ==
    IF Len(words) = 0 THEN None
    ELSE TallestBand(SelectSeq(ZoneBands(MinY0(words, 2, words[1].y0),
                                         MaxY1(words, 2, words[1].y1),
                                         page_box, fallback_zone, 8 * PT),
                LAMBDA b : Height(b) >= (13 * note_fontsize) \div 10 + 2 * note_padding + 2 * PT))

\* if cand is None and pos is not None and wrapped is not None: the footer's note is used
UseFooter(cand, footer) == IsNone(cand) /\ ~IsNone(footer.pos) /\ ~IsNone(footer.wrapped)

\* whether the global fallback step is entered
ZoneEntered(cand, footer, enable_fallback) ==
    /\ ~UseFooter(cand, footer)
    /\ IsNone(cand)
    /\ enable_fallback

\* the Band Packer on the fallback band b for the measured note m
ZonePack(m, b, final_w, placed, text_rects, cfg) ==
    Ran(_place_in_band(b, b.y0 + Half(Height(b)), final_w, m.height + 2 * cfg.note_padding,
                       placed, text_rects, 6 * PT, 3 * PT),
        m.lines)

\* the global fallback step on band b for the width final_w
ZoneFor(final_w, b, ctext, placed, text_rects, cfg) ==
    ZonePack(Measure(ctext, final_w, cfg), b, final_w, placed, text_rects, cfg)

\* the global fallback step with the band _fallback_band returned
ZoneOn(band, ctext, placed, text_rects, cfg) ==
    IF IsNone(band) THEN [ran |-> TRUE, pos |-> None, wrapped |-> None]
    ELSE ZoneFor(FinalWidth(Width(The(band)), cfg.note_width, cfg.min_note_width),
                 The(band), ctext, placed, text_rects, cfg)

\* the global fallback step: [ran, pos, wrapped]
ZoneStep(ctext, words, page_box, placed, text_rects, cfg) ==
    ZoneOn(_fallback_band(words, page_box, cfg.fallback_zone, cfg.note_fontsize,
                          cfg.note_padding),
           ctext, placed, text_rects, cfg)

\* if band_fallback: the fallback zone's note is used
UseZone(cand, footer, zone) == ~UseFooter(cand, footer) /\ zone.ran /\ ~IsNone(zone.pos)

\* whether the Band Packer runs on the accepted gap
GapEntered(cand, footer, zone) ==
    ~UseFooter(cand, footer) /\ ~UseZone(cand, footer, zone) /\ ~IsNone(cand)

\* the Band Packer on the gap's band for the measured note m
GapPack(m, found, page_box, placed, text_rects, cfg) ==
    Ran(_place_in_band(Rect(found.cand[1][1], page_box.y0, found.cand[1][2], page_box.y1),
                       found.cy, found.cand[2], m.height + 2 * cfg.note_padding,
                       placed, text_rects, 6 * PT, 3 * PT),
        m.lines)

\* the side / gutter step: [ran, pos, wrapped]
GapStep(ctext, found, page_box, placed, text_rects, cfg) ==
    GapPack(Measure(ctext, found.cand[2], cfg), found, page_box, placed, text_rects, cfg)

\* the suppression of a note next to one of the same text
NoteYDuplicate(pos, ys, tol) == \E i \in 1..Len(ys) : Abs(MidY(pos) - ys[i]) <= tol

\* what the loop body knows of a hit before any check: center, block, comment
HitHead(q, hit, blk, ctext) ==
    [q |-> q, hit |-> hit, cx0 |-> MidX(hit), cy0 |-> MidY(hit), blk_idx |-> blk.idx,
     blk_rect |-> blk.rect, ctext |-> ctext, norm_ct |-> NormCt(ctext)]

\* a pass that ends at one of the duplicate checks, before any placement work
Early(hd, o) ==
    hd @@ [outcome |-> o, path |-> "none", tried |-> <<>>, pos |-> None, wrapped |-> None,
           gap |-> None, band_failed |-> FALSE, footer_pos |-> None, prefer |-> "none",
           found |-> None]

\* a pass that went through the placement steps; tried lists them in the order run
Late(hd, cand, footer, zone, gp, o, pth, step) ==
    hd @@ [outcome |-> o, path |-> pth,
           tried |-> <<"gap">> \o (IF footer.ran THEN <<"footer">> ELSE <<>>)
                               \o (IF zone.ran THEN <<"zone">> ELSE <<>>)
                               \o (IF gp.ran THEN <<"band">> ELSE <<>>),
           pos |-> step.pos, wrapped |-> step.wrapped, gap |-> cand,
           band_failed |-> gp.ran /\ IsNone(gp.pos), footer_pos |-> footer.pos]

\* the note of a step that produced a position, unless one of the same text lies within tol
Finish(hd, cand, footer, zone, gp, pth, step, ys, tol) ==
    IF NoteYDuplicate(The(step.pos), ys, tol)
    THEN Late(hd, cand, footer, zone, gp, "skipped", pth, step)
    ELSE Late(hd, cand, footer, zone, gp, "note", pth, step)

\* the branch the loop body takes once every step has run
Outcome(hd, cand, footer, zone, gp, ys, tol) ==
    IF UseFooter(cand, footer) THEN Finish(hd, cand, footer, zone, gp, "footer", footer, ys, tol)
    ELSE IF UseZone(cand, footer, zone)
         THEN Finish(hd, cand, footer, zone, gp, "zone", zone, ys, tol)
    ELSE IF IsNone(cand) THEN Late(hd, cand, footer, zone, gp, "skipped", "none", NotRun)
    ELSE IF IsNone(gp.pos) THEN Late(hd, cand, footer, zone, gp, "skipped", "gap", gp)
    ELSE Finish(hd, cand, footer, zone, gp, "gap", gp, ys, tol)

\* the steps after the global fallback: the Band Packer on the gap, when it is entered
AfterZone(hd, cand, footer, zone, e) ==
    Outcome(hd, cand, footer, zone,
            IF GapEntered(cand, footer, zone)
            THEN GapStep(hd.ctext, The(cand), e.page_box, e.placed, e.text_rects, e.cfg)
            ELSE NotRun,
            Get(e.note_ys, hd.norm_ct), e.cfg.dedupe_note_y_tol)

\* the steps after the footer: the global fallback, when it is entered
AfterFooter(hd, cand, footer, e) ==
    AfterZone(hd, cand, footer,
              IF ZoneEntered(cand, footer, e.cfg.enable_fallback)
              THEN ZoneStep(hd.ctext, e.words, e.page_box, e.placed, e.text_rects, e.cfg)
              ELSE NotRun,
              e)

\* the steps after the gap search: the footer, when it is entered
AfterGap(hd, cand, e) ==
    AfterFooter(hd, cand,
                IF FooterEntered(cand, e.cfg.allow_column_footer)
                THEN FooterStep(hd.ctext, hd.cy0, hd.blk_rect, e.page_box, e.placed,
                                e.text_rects, e.cfg)
                ELSE NotRun,
                e)

\* the arguments _find_gap_nearby hands to its chooser
GapArgs(prefer_side, cfg) ==
    [prefer_side |-> prefer_side, target_w |-> cfg.note_width, min_w |-> cfg.min_note_width,
     allow_center_gutter |-> cfg.allow_center_gutter, center_tol |-> cfg.center_gutter_tolerance]

\* the steps after _find_gap_nearby returned found: the too_far / out_of_block test,
\* then the fallbacks
Searched(hd, prefer, found, e) ==
    AfterGap(hd @@ [prefer |-> prefer, found |-> found],
             AcceptGap(found, hd.cy0, hd.blk_rect, e.cfg.max_vertical_offset,
                       e.cfg.within_block_pad),
             e)

\* the gap search for the preferred side
SearchGap(hd, prefer, e) ==
    Searched(hd, prefer,
             _find_gap_nearby(e.words, e.page_box, hd.blk_rect, hd.cy0, GapArgs(prefer, e.cfg),
                              e.cfg.scan_step, e.cfg.max_scan),
             e)

\* the placement work of a hit that passed the duplicate checks
PlaceHit(hd, e) == SearchGap(hd, PreferSide(e.cfg.side, e.page_box, hd.hit), e)

\* the duplicate checks of a hit, then its placement
CheckHit(hd, e) ==
    IF <<hd.blk_idx, hd.norm_ct>> \in e.commented THEN Early(hd, "dup_block")
    ELSE IF IsDuplicateHit(hd.cx0, hd.cy0, Get(e.anchors, hd.norm_ct),
                           e.cfg.merge_duplicate_hits_tol)
         THEN Early(hd, "dup_anchor")
    ELSE IF ScopeRejects(e.cfg.dedupe_scope, hd.norm_ct, e.page_commented, e.doc_commented)
         THEN Early(hd, "dup_scope")
    ELSE PlaceHit(hd, e)

\* The decisions of one pass of the loop body for hit of query q, up to the call of
\* _finalize_pos. e holds what the pass reads: the page (words, page_box, blocks,
\* text_rects), the arguments (comment_map, cfg) and the bookkeeping (placed, anchors,
\* note_ys, commented, page_commented, doc_commented). outcome is "dup_block",
\* "dup_anchor", "dup_scope", "skipped" or "note"; for a note path names the strategy
\* and pos the rectangle it computed.
HitDecision(q, hit, e) ==
    CheckHit(HitHead(q, hit, _block_for_rect_idx(hit, e.blocks), CommentFor(e.comment_map, q)),
             e)

\* the leader endpoints _finalize_pos records: <<from, to>>, each a point or None
Leader(pos, blk_rect, draw_leader) ==
    IF draw_leader /\ pos.x1 <= blk_rect.x0
    THEN <<Some(<<pos.x1, MidY(pos)>>), Some(<<blk_rect.x0, MidY(pos)>>)>>
    ELSE IF draw_leader /\ pos.x0 >= blk_rect.x1
    THEN <<Some(<<pos.x0, MidY(pos)>>), Some(<<blk_rect.x1, MidY(pos)>>)>>
    ELSE <<None, None>>

\* the NotePlacement for the final rectangle pos
NotePlacement(uid, page_number, d, pos, ld) ==
    [uid |-> uid, page_index |-> page_number, query |-> d.q, explanation |-> d.ctext,
     anchor_rect |-> d.blk_rect, note_rect |-> pos, leader_from |-> ld[1], leader_to |-> ld[2]]

\* a _finalize_pos that takes the uid of an overridden note from the center of the
\* rectangle of the override
FinalizeUidOfRect(uid, page_number, d, fixed, draw_leader) ==
    [uid |-> IF uid \in DOMAIN fixed
             THEN _make_uid(page_number, d.norm_ct, MidX(fixed[uid]), MidY(fixed[uid]))
             ELSE uid,
     page_index |-> page_number, query |-> d.q, explanation |-> d.ctext,
     anchor_rect |-> d.blk_rect,
     note_rect |-> IF uid \in DOMAIN fixed THEN fixed[uid] ELSE The(d.pos),
     leader_from |-> None, leader_to |-> None]

\* if fixed_note_rects and uid in fixed_note_rects: pos = fitz.Rect(*fixed_note_rects[uid])
FinalRect(uid, pos, fixed) == IF uid \in DOMAIN fixed THEN fixed[uid] ELSE pos

\* _finalize_pos from the override on
FinalizeAt(uid, page_number, d, pos, draw_leader) ==
    NotePlacement(uid, page_number, d, pos, Leader(pos, d.blk_rect, draw_leader))

\* _finalize_pos with the uid it computed
FinalizeUid(uid, page_number, d, fixed, draw_leader) ==
    FinalizeAt(uid, page_number, d, FinalRect(uid, The(d.pos), fixed), draw_leader)

\* the NotePlacement _finalize_pos builds for decision d: the uid from the hit, then
\* the override of that uid, if any, in place of the computed rectangle
_finalize_pos(page_number, d, fixed, draw_leader) ==
    FinalizeUid(_make_uid(page_number, d.norm_ct, d.cx0, d.cy0), page_number, d, fixed,
                draw_leader)

RECURSIVE JoinNl(_)
\* "\n".join(lines)
JoinNl(lines) ==
    IF Len(lines) = 0 THEN <<>>
    ELSE IF Len(lines) = 1 THEN lines[1]
    ELSE lines[1] \o <<"\n">> \o JoinNl(Tail(lines))

RECURSIVE LineWords(_, _, _, _, _, _)
\* the word boxes of one line drawn from (x, y): a box per blank-separated word, as
\* wide as the word measures and one font size high above the baseline y
LineWords(ln, i, x, y, fontsize, acc) ==
    IF i > Len(ln) THEN acc
    ELSE IF IsSpace(ln[i]) THEN LineWords(ln, i + 1, x, y, fontsize, acc)
    ELSE LET RECURSIVE End(_)
             End(j) == IF j < Len(ln) /\ ~IsSpace(ln[j + 1]) THEN End(j + 1) ELSE j
             e == End(i)
             box == Rect(x + GetLen(SubSeq(ln, 1, i - 1), fontsize), y - fontsize,
                         x + GetLen(SubSeq(ln, 1, e), fontsize), y)
         IN  LineWords(ln, e + 1, x, y, fontsize, Append(acc, box))

RECURSIVE DrawLines(_, _, _, _, _, _)
DrawLines(lines, i, rect, y, fontsize, acc) ==
    IF i > Len(lines) \/ y > rect.y1 THEN acc
    ELSE DrawLines(lines, i + 1, rect, y + (118 * fontsize) \div 100, fontsize,
                   LineWords(lines[i], 1, rect.x0, y, fontsize, acc))

\* _draw_paragraph_lines(page, rect, text, tightness=0.96, line_height_factor=1.18):
\* the words page.insert_text adds to the page
_draw_paragraph_lines(rect, text, fontsize) ==
    IF Len(Split(text)) = 0 THEN <<>>
    ELSE DrawLines(WrapLines(text, Width(rect), fontsize, 96), 1, rect,
                   rect.y0 + fontsize, fontsize, <<>>)

(***************************************************************************)
(* Documents, annotation lists and configurations                          *)
(***************************************************************************)
MaxPages == 2
MaxItems == 2
ScanPages == 1
MaxRows == 2
MaxWidthSteps == 9

PageBox == RectPt(0, 0, 300, 220)

\* a column with a wide right margin; its last line is short
TplMargin ==
    [blocks |-> << [r |-> RectPt(40, 30, 200, 70), text |-> TRUE] >>,
     words  |-> << RectPt(40, 30, 200, 42), RectPt(40, 44, 200, 56), RectPt(40, 58, 120, 70) >>,
     hits   |-> [q1 |-> << RectPt(60, 30, 100, 42) >>,
                 q2 |-> << RectPt(110, 30, 150, 42), RectPt(60, 58, 100, 70) >>]]

\* a narrow and a wide column side by side that leave no margin wide enough for a
\* note; the narrow column is too narrow for a footer note as well
TplFull ==
    [blocks |-> << [r |-> RectPt(30, 30, 90, 70), text |-> TRUE],
                   [r |-> RectPt(94, 30, 270, 70), text |-> TRUE] >>,
     words  |-> << RectPt(30, 30, 90, 42), RectPt(94, 30, 270, 42),
                   RectPt(30, 44, 90, 56), RectPt(94, 44, 270, 56),
                   RectPt(30, 58, 90, 70), RectPt(94, 58, 270, 70) >>,
     hits   |-> [q1 |-> << RectPt(40, 30, 80, 42) >>,
                 q2 |-> << RectPt(110, 44, 150, 56) >>]]

\* the first column again, an image block (a block without words) filling its margin
TplImage ==
    [blocks |-> << [r |-> RectPt(40, 30, 200, 70), text |-> TRUE],
                   [r |-> RectPt(210, 10, 290, 210), text |-> TRUE] >>,
     words  |-> << RectPt(40, 30, 200, 42), RectPt(40, 44, 200, 56), RectPt(40, 58, 120, 70) >>,
     hits   |-> [q1 |-> << RectPt(60, 30, 100, 42) >>,
                 q2 |-> << RectPt(60, 58, 100, 70) >>]]

\* two blocks, one right under the other
TplTwoBlocks ==
    [blocks |-> << [r |-> RectPt(40, 30, 200, 50), text |-> TRUE],
                   [r |-> RectPt(40, 52, 200, 100), text |-> TRUE] >>,
     words  |-> << RectPt(40, 30, 200, 40), RectPt(40, 40, 200, 50), RectPt(40, 52, 200, 62),
                   RectPt(40, 64, 200, 74), RectPt(40, 76, 200, 86), RectPt(40, 88, 200, 100) >>,
     hits   |-> [q1 |-> << RectPt(60, 40, 100, 50) >>,
                 q2 |-> << RectPt(60, 52, 100, 62), RectPt(60, 88, 100, 100) >>]]

\* a block of a single line with a wide right margin, two hits on the line
TplLine ==
    [blocks |-> << [r |-> RectPt(40, 30, 200, 42), text |-> TRUE] >>,
     words  |-> << RectPt(40, 30, 200, 42) >>,
     hits   |-> [q1 |-> << RectPt(60, 30, 100, 42) >>,
                 q2 |-> << RectPt(110, 30, 150, 42) >>]]

\* a column with a wide left margin
TplLeftMargin ==
    [blocks |-> << [r |-> RectPt(100, 30, 260, 70), text |-> TRUE] >>,
     words  |-> << RectPt(100, 30, 260, 42), RectPt(100, 44, 260, 56), RectPt(100, 58, 260, 70) >>,
     hits   |-> [q1 |-> << RectPt(120, 30, 160, 42) >>, q2 |-> <<>>]]

\* a column with a wide margin on either side
TplBoth ==
    [blocks |-> << [r |-> RectPt(100, 30, 200, 70), text |-> TRUE] >>,
     words  |-> << RectPt(100, 30, 200, 42), RectPt(100, 44, 200, 56), RectPt(100, 58, 200, 70) >>,
     hits   |-> [q1 |-> << RectPt(120, 30, 160, 42) >>, q2 |-> <<>>]]

\* two columns around a wide gutter on the page's center line, the hit in the right
\* one, which has a wide right margin
TplGutter ==
    [blocks |-> << [r |-> RectPt(10, 30, 100, 70), text |-> TRUE],
                   [r |-> RectPt(190, 30, 220, 70), text |-> TRUE] >>,
     words  |-> << RectPt(10, 30, 100, 42), RectPt(190, 30, 220, 42),
                   RectPt(10, 44, 100, 56), RectPt(190, 44, 220, 56),
                   RectPt(10, 58, 100, 70), RectPt(190, 58, 220, 70) >>,
     hits   |-> [q1 |-> << RectPt(195, 30, 215, 42) >>, q2 |-> <<>>]]

\* a running head on the page's top edge
TplTop ==
    [blocks |-> << [r |-> RectPt(40, 0, 200, 10), text |-> TRUE] >>,
     words  |-> << RectPt(40, 0, 200, 10) >>,
     hits   |-> [q1 |-> << RectPt(60, 0, 100, 10) >>, q2 |-> <<>>]]

\* a line across the whole page: the heights around it have no gap
TplAcross ==
    [blocks |-> << [r |-> RectPt(2, 30, 298, 42), text |-> TRUE] >>,
     words  |-> << RectPt(2, 30, 298, 42) >>,
     hits   |-> [q1 |-> << RectPt(60, 30, 100, 42) >>, q2 |-> <<>>]]

\* two blocks that touch at y = 50 and an occurrence of each quote across the seam: the
\* centers are 0.01 apart in y, lie in different blocks and round to the same hundredth
TplSeam ==
    [blocks |-> << [r |-> RectPt(40, 30, 200, 50), text |-> TRUE],
                   [r |-> RectPt(40, 50, 200, 70), text |-> TRUE] >>,
     words  |-> << RectPt(40, 30, 200, 50), RectPt(40, 50, 200, 70) >>,
     hits   |-> [q1 |-> << Rect(60 * PT, 44 * PT - 1, 100 * PT, 56 * PT - 1) >>,
                 q2 |-> << Rect(60 * PT, 44 * PT + 1, 100 * PT, 56 * PT + 1) >>]]

TemplateNames == {"margin", "full", "image", "two_blocks", "line"}
\* the pages of the gap search's inputs
ScanTemplateNames == {"margin", "left_margin", "both", "gutter", "top", "across", "full"}
\* the page layout of a name
Template(name) ==
    CASE name = "margin" -> TplMargin
      [] name = "full" -> TplFull
      [] name = "image" -> TplImage
      [] name = "two_blocks" -> TplTwoBlocks
      [] name = "line" -> TplLine
      [] name = "left_margin" -> TplLeftMargin
      [] name = "both" -> TplBoth
      [] name = "gutter" -> TplGutter
      [] name = "top" -> TplTop
      [] name = "across" -> TplAcross
      [] name = "seam" -> TplSeam

\* an annotation item {quote, explanation}
Item(q, e) == [quote |-> q, explanation |-> e]
ItemPool == { Item("q1", <<"a", " ", "b">>),
              Item("q2", <<"A", " ", " ", "b">>),
              Item("q2", <<"b", "b", "b", "b", "b", "b", "b", "b", " ",
                           "a", "a", "a", "a", "a", "a", "a", "a">>) }
ItemLists == UNION { [1..n -> ItemPool] : n \in 1..MaxItems }

\* qlist = [it["quote"] for it in items]
QList(items) == [i \in 1..Len(items) |-> items[i].quote]
\* comment_map = {it["quote"]: it["explanation"] for it in items}: the last item of a quote
CommentMap(items) ==
    [q \in {items[i].quote : i \in 1..Len(items)} |->
        LET last == CHOOSE i \in 1..Len(items) :
                        /\ items[i].quote = q
                        /\ \A j \in (i + 1)..Len(items) : items[j].quote # q
        IN  items[last].explanation]

\* the keyword defaults of highlight_and_margin_comment_pdf
DefaultCfg ==
    [note_fontsize |-> 10 * PT, note_width |-> 160 * PT, min_note_width |-> 56 * PT,
     note_padding |-> 4 * PT, draw_leader |-> TRUE, side |-> "nearest",
     scan_step |-> 8 * PT, max_scan |-> 240 * PT, max_vertical_offset |-> 72 * PT,
     within_block_pad |-> 12 * PT, allow_column_footer |-> TRUE,
     column_footer_max_offset |-> 144 * PT, column_footer_top_gap |-> 6 * PT,
     column_footer_side_pad |-> 3 * PT, enable_fallback |-> FALSE,
     fallback_zone |-> "bottom", merge_duplicate_hits_tol |-> 12 * PT,
     dedupe_note_y_tol |-> 16 * PT, allow_center_gutter |-> FALSE,
     center_gutter_tolerance |-> 24 * PT, wrap_tightness |-> 96,
     line_height_factor |-> 118, dedupe_scope |-> "block"]

Sides == {"right", "nearest"}
\* <<allow_column_footer, enable_fallback>>
Fallbacks == {<<TRUE, FALSE>>, <<FALSE, TRUE>>, <<TRUE, TRUE>>, <<FALSE, FALSE>>}
Scopes == {"block", "page", "document"}
\* the keyword arguments of a call that gives side, the two switches, the scope, the
\* center-gutter switch, <<scan_step, max_scan>>, column_footer_max_offset and
\* merge_duplicate_hits_tol
Config(c) ==
    [DefaultCfg EXCEPT !.side = c.side, !.allow_column_footer = c.fallbacks[1],
                       !.enable_fallback = c.fallbacks[2], !.dedupe_scope = c.scope,
                       !.allow_center_gutter = c.gutter, !.scan_step = c.scan[1],
                       !.max_scan = c.scan[2], !.column_footer_max_offset = c.footer_off,
                       !.merge_duplicate_hits_tol = c.merge_tol]
\* the calls made: every side with every pair of switches under the default scope, and
\* every side with every scope under the default switches
ConfigChoices ==
    { c \in [side : Sides, fallbacks : Fallbacks, scope : Scopes,
             gutter : {DefaultCfg.allow_center_gutter},
             scan : {<<DefaultCfg.scan_step, DefaultCfg.max_scan>>},
             footer_off : {DefaultCfg.column_footer_max_offset},
             merge_tol : {DefaultCfg.merge_duplicate_hits_tol}] :
        c.scope = DefaultCfg.dedupe_scope
        \/ c.fallbacks = <<DefaultCfg.allow_column_footer, DefaultCfg.enable_fallback>> }

\* the sides, center-gutter switches and <<scan_step, max_scan>> pairs of the gap
\* search's inputs: the default scan, one whose max_scan is no multiple of its
\* scan_step, and one too short to leave the line of the hit
ScanSides == {"left", "right", "nearest"}
ScanRanges == {<<8 * PT, 240 * PT>>, <<8 * PT, 20 * PT>>, <<8 * PT, 16 * PT>>}
ScanConfigChoices ==
    [side : ScanSides, fallbacks : {<<TRUE, FALSE>>, <<FALSE, FALSE>>},
     scope : {DefaultCfg.dedupe_scope}, gutter : BOOLEAN, scan : ScanRanges,
     footer_off : {DefaultCfg.column_footer_max_offset},
     merge_tol : {DefaultCfg.merge_duplicate_hits_tol}]

\* the rectangle a caller pins a note to: it fills the right margin
OverrideRects == { RectPt(204, 4, 296, 216) }

(***************************************************************************)
(* The engine as a state machine.  A behaviour is what the preview does    *)
(* with one document, annotation list and configuration: a plan-only call  *)
(* without overrides, a plan-only call with an override map and a render   *)
(* call with the same map.                                                 *)
(***************************************************************************)
VARIABLES
    inp,                \* the inputs: [tpl, npages, items, cfg]
    call,               \* the number of the call running, or about to start
    pc,                 \* "idle", "page" (at the head of the page loop), "hit", "done"
    plan_only,          \* the arguments of the call
    fixed_note_rects,
    doc_words,          \* the words of each page of the opened document
    highlights,         \* highlight annotations added to the opened document
    pno,                \* the page of the page loop, from 1
    page_hits,          \* the (q, hit) pairs of the page
    hix,                \* the pair the hit loop is at, from 1
    placed,
    anchors_by_comment,
    note_y_by_comment,
    commented,
    page_commented,
    doc_commented,
    total_hits,
    total_notes,
    total_skipped,
    placements,
    trace,              \* history: the decision taken for each pair the loop has passed
    returned            \* history: what each finished call returned

vars == <<inp, call, pc, plan_only, fixed_note_rects, doc_words, highlights, pno, page_hits,
          hix, placed, anchors_by_comment, note_y_by_comment, commented, page_commented,
          doc_commented, total_hits, total_notes, total_skipped, placements, trace, returned>>

page_vars == <<placed, anchors_by_comment, note_y_by_comment, commented, page_commented>>
count_vars == <<total_hits, total_notes, total_skipped>>

\* a document of MaxPages pages that all show the template, an annotation list and the
\* keyword arguments
Inputs ==
    { [tpl |-> t, npages |-> MaxPages, items |-> it, cfg |-> c] :
        t \in TemplateNames, it \in ItemLists, c \in ConfigChoices }

\* the inputs of the gap search: a document of ScanPages pages, one quote, every side,
\* center-gutter switch and scan range
ScanInputs ==
    { [tpl |-> t, npages |-> ScanPages, items |-> << Item("q1", <<"a", " ", "b">>) >>,
       cfg |-> c] : t \in ScanTemplateNames, c \in ScanConfigChoices }

\* the layout of page p (from 1) of the document call c opens: every page shows the
\* template of the inputs, but for inputs that name a first page for each call
PageTpl(c, p) ==
    Template(IF p = 1 /\ "first" \in DOMAIN inp THEN inp.first[c] ELSE inp.tpl)
\* the page the page loop is at, the configuration and the comment map of the behaviour
Tpl == PageTpl(call, pno)
Cfg == Config(inp.cfg)
Comments == CommentMap(inp.items)

\* the uids of the occurrences the first page holds for the quotes of the list
HitUids ==
    UNION { { _make_uid(0, NormCt(Comments[q]), MidX(Tpl.hits[q][k]), MidY(Tpl.hits[q][k])) :
                k \in 1..Len(Tpl.hits[q]) } : q \in DOMAIN Comments }

\* {p.uid: p.note_rect for p in placements}
FreezeMap(P) ==
    [u \in {P[i].uid : i \in 1..Len(P)} |->
        P[CHOOSE i \in 1..Len(P) : P[i].uid = u /\ \A j \in (i + 1)..Len(P) : P[j].uid # u].note_rect]

\* the override maps of the second and third call: none, one note pinned, or every note
\* of the first plan pinned to its planned rectangle
FixedChoices ==
    {<<>>}
    \cup { [u \in {v} |-> r] : v \in HitUids, r \in OverrideRects }
    \cup { FreezeMap(returned[1].placements) }

\* the state before the first call
Start ==
    /\ call = 1
    /\ pc = "idle"
    /\ plan_only = TRUE
    /\ fixed_note_rects = <<>>
    /\ doc_words = <<>>
    /\ highlights = 0
    /\ pno = 1
    /\ page_hits = <<>>
    /\ hix = 1
    /\ placed = <<>>
    /\ anchors_by_comment = <<>>
    /\ note_y_by_comment = <<>>
    /\ commented = {}
    /\ page_commented = {}
    /\ doc_commented = {}
    /\ total_hits = 0
    /\ total_notes = 0
    /\ total_skipped = 0
    /\ placements = <<>>
    /\ trace = <<>>
    /\ returned = <<>>

Init == inp \in Inputs /\ Start

\* the plan-only call on the inputs of the gap search
ScanInit == inp \in ScanInputs /\ Start

\* an entry that keeps the document-wide set of the call before
EnterStale(po, fx) ==
    /\ pc = "idle"
    /\ plan_only' = po
    /\ fixed_note_rects' = fx
    /\ doc_words' = [p \in 1..inp.npages |-> PageTpl(call, p).words]
    /\ highlights' = 0
    /\ pno' = 1
    /\ page_hits' = <<>>
    /\ hix' = 1
    /\ placed' = <<>>
    /\ anchors_by_comment' = <<>>
    /\ note_y_by_comment' = <<>>
    /\ commented' = {}
    /\ page_commented' = {}
    /\ total_hits' = 0
    /\ total_notes' = 0
    /\ total_skipped' = 0
    /\ placements' = <<>>
    /\ trace' = <<>>
    /\ pc' = "page"
    /\ UNCHANGED <<inp, call, returned, doc_commented>>

\* the entry of highlight_and_margin_comment_pdf up to the page loop: the document is
\* opened, the counts and the document-wide set start empty
Enter(po, fx) ==
    /\ pc = "idle"
    /\ plan_only' = po
    /\ fixed_note_rects' = fx
    /\ doc_words' = [p \in 1..inp.npages |-> PageTpl(call, p).words]
    /\ highlights' = 0
    /\ pno' = 1
    /\ page_hits' = <<>>
    /\ hix' = 1
    /\ placed' = <<>>
    /\ anchors_by_comment' = <<>>
    /\ note_y_by_comment' = <<>>
    /\ commented' = {}
    /\ page_commented' = {}
    /\ doc_commented' = {}
    /\ total_hits' = 0
    /\ total_notes' = 0
    /\ total_skipped' = 0
    /\ placements' = <<>>
    /\ trace' = <<>>
    /\ pc' = "page"
    /\ UNCHANGED <<inp, call, returned>>

\* the plan-only call of the preview: no overrides yet
Plan == call = 1 /\ Enter(TRUE, <<>>)

\* a plan-only call with an override map
Replan == call = 2 /\ \E fx \in FixedChoices : Enter(TRUE, fx)

\* the render call with the map of the second call
Render == call = 3 /\ Enter(FALSE, fixed_note_rects)

RECURSIVE SearchAllNewestFirst(_, _, _, _)
\* a search that puts the hits of a later quote before those of the quotes before it
SearchAllNewestFirst(qlist, i, hits, acc) ==
    IF i > Len(qlist) THEN acc
    ELSE LET hs == _dedup_rects(hits[qlist[i]])
         IN  SearchAllNewestFirst(qlist, i + 1, hits,
                                  [k \in 1..Len(hs) |-> [q |-> qlist[i], h |-> hs[k]]] \o acc)

RECURSIVE SearchAll(_, _, _, _)
\* page_hits: for q in qlist, the deduplicated hits of q, as (q, h) pairs
SearchAll(qlist, i, hits, acc) ==
    IF i > Len(qlist) THEN acc
    ELSE LET hs == _dedup_rects(hits[qlist[i]])
         IN  SearchAll(qlist, i + 1, hits,
                       acc \o [k \in 1..Len(hs) |-> [q |-> qlist[i], h |-> hs[k]]])

\* the hits the highlight loop counts: per quote of hits_by_query, its deduplicated quads
HighlightCount(ph) ==
    LET qs == {ph[i].q : i \in 1..Len(ph)}
        quads(q) == LET mine == SelectSeq(ph, LAMBDA x : x.q = q)
                    IN  _dedup_rects([k \in 1..Len(mine) |-> mine[k].h])
        RECURSIVE Sum(_)
        Sum(S) == IF S = {} THEN 0
                  ELSE LET q == CHOOSE x \in S : TRUE IN Len(quads(q)) + Sum(S \ {q})
    IN  Sum(qs)

\* a page that goes on with the bookkeeping of the page before it
PageBookkeepingKept ==
    UNCHANGED <<placed, anchors_by_comment, note_y_by_comment, page_commented>>

\* placed = []; anchors_by_comment, note_y_by_comment = defaultdict(list);
\* page_commented = set()
PageBookkeeping ==
    /\ placed' = <<>>
    /\ anchors_by_comment' = <<>>
    /\ note_y_by_comment' = <<>>
    /\ page_commented' = {}

\* the head of the page loop: the page's bookkeeping starts empty, the quotes are
\* searched and highlighted; a page without hits is passed over
NextPage ==
    /\ pc = "page"
    /\ pno <= inp.npages
    /\ LET ph == SearchAll(QList(inp.items), 1, Tpl.hits, <<>>)
       IN  /\ page_hits' = ph
           /\ PageBookkeeping
           /\ IF Len(ph) = 0
              THEN /\ pno' = pno + 1
                   /\ UNCHANGED <<pc, hix, commented, total_hits, highlights>>
              ELSE /\ highlights' = highlights + Cardinality({ph[i].q : i \in 1..Len(ph)})
                   /\ total_hits' = total_hits + HighlightCount(ph)
                   /\ commented' = {}
                   /\ hix' = 1
                   /\ pc' = "hit"
                   /\ UNCHANGED pno
    /\ UNCHANGED <<inp, call, plan_only, fixed_note_rects, doc_words, doc_commented,
                   total_notes, total_skipped, placements, trace, returned>>

\* text_rects = _text_rects_padded(fitz, page), taken at the head of the page loop
TextRects == _text_rects_padded(Tpl.blocks, 2 * PT)

\* what a pass of the hit loop reads: the page, the arguments and the bookkeeping
Env ==
    [words |-> doc_words[pno], page_box |-> PageBox, blocks |-> Tpl.blocks,
     text_rects |-> TextRects, comment_map |-> Comments,
     cfg |-> Cfg, placed |-> placed, anchors |-> anchors_by_comment,
     note_ys |-> note_y_by_comment, commented |-> commented,
     page_commented |-> page_commented, doc_commented |-> doc_commented]

\* the decision for the pair the hit loop is at
Decision == HitDecision(page_hits[hix].q, page_hits[hix].h, Env)

\* the history entry of a decision
Entry(d, np) ==
    [page |-> pno - 1, q |-> d.q, hit |-> d.hit, norm_ct |-> d.norm_ct, blk_idx |-> d.blk_idx,
     blk_rect |-> d.blk_rect, outcome |-> d.outcome, path |-> d.path, tried |-> d.tried,
     gap |-> d.gap, band_failed |-> d.band_failed, footer_pos |-> d.footer_pos,
     pos |-> d.pos, placement |-> np, cy0 |-> d.cy0, prefer |-> d.prefer, found |-> d.found]

\* the move of the hit loop to its next pair, or back to the page loop
Advance ==
    /\ hix' = hix + 1
    /\ IF hix + 1 > Len(page_hits)
       THEN pc' = "page" /\ pno' = pno + 1
       ELSE UNCHANGED <<pc, pno>>

\* the words the drawing of a note adds to the page, none under plan_only
DrawNote(pos, wrapped, cfg) ==
    IF plan_only THEN <<>>
    ELSE _draw_paragraph_lines(Grow(pos, cfg.note_padding, cfg.note_padding,
                                    -cfg.note_padding, -cfg.note_padding),
                               JoinNl(wrapped), cfg.note_fontsize)

\* _finalize_pos for decision d with the placement np it built: the bookkeeping, then
\* the drawing
KeepNote(d, np, cfg) ==
    /\ placements' = Append(placements, np)
    /\ placed' = Append(placed, np.note_rect)
    /\ total_notes' = total_notes + 1
    /\ commented' = commented \cup {<<d.blk_idx, d.norm_ct>>}
    /\ note_y_by_comment' = Put(note_y_by_comment, d.norm_ct, MidY(np.note_rect))
    /\ anchors_by_comment' = Put(anchors_by_comment, d.norm_ct, <<d.cx0, d.cy0>>)
    /\ page_commented' = IF cfg.dedupe_scope \in {"page", "document"}
                         THEN page_commented \cup {d.norm_ct} ELSE page_commented
    /\ doc_commented' = IF cfg.dedupe_scope = "document"
                        THEN doc_commented \cup {d.norm_ct} ELSE doc_commented
    /\ doc_words' = [doc_words EXCEPT ![pno] = @ \o DrawNote(np.note_rect, The(d.wrapped), cfg)]
    /\ trace' = Append(trace, Entry(d, Some(np)))
    /\ UNCHANGED total_skipped

\* a pass without a note that still marks the hit's block as commented
DropHitMarking(d) ==
    /\ total_skipped' = IF d.outcome = "skipped" THEN total_skipped + 1 ELSE total_skipped
    /\ trace' = Append(trace, Entry(d, None))
    /\ commented' = commented \cup {<<d.blk_idx, d.norm_ct>>}
    /\ UNCHANGED <<placements, placed, anchors_by_comment, note_y_by_comment, page_commented,
                   doc_commented, doc_words, total_notes>>

\* a pass that ends without a note: a duplicate is passed over, a failure is counted
DropHit(d) ==
    /\ total_skipped' = IF d.outcome = "skipped" THEN total_skipped + 1 ELSE total_skipped
    /\ trace' = Append(trace, Entry(d, None))
    /\ UNCHANGED <<placements, page_vars, doc_commented, doc_words, total_notes>>

\* the end of a pass with decision d
Conclude(d, cfg) ==
    IF d.outcome = "note"
    THEN KeepNote(d, _finalize_pos(pno - 1, d, fixed_note_rects, cfg.draw_leader), cfg)
    ELSE DropHit(d)

\* one pass of the hit loop: the decision, and for a note _finalize_pos with its
\* bookkeeping and, unless plan_only, its drawing
ProcessHit ==
    /\ pc = "hit"
    /\ Conclude(Decision, Cfg)
    /\ Advance
    /\ UNCHANGED <<inp, call, plan_only, fixed_note_rects, highlights, page_hits,
                   total_hits, returned>>

\* the end of the call: the document is saved unless plan_only, the counts are returned
Return ==
    /\ pc = "page"
    /\ pno > inp.npages
    /\ returned' = Append(returned,
            [plan_only |-> plan_only, fixed |-> fixed_note_rects, saved |-> ~plan_only,
             total_hits |-> total_hits, total_notes |-> total_notes,
             total_skipped |-> total_skipped, placements |-> placements,
             highlights |-> highlights, trace |-> trace])
    /\ call' = call + 1
    /\ pc' = IF call = 3 THEN "done" ELSE "idle"
    /\ UNCHANGED <<inp, plan_only, fixed_note_rects, doc_words, highlights, pno, page_hits, hix,
                   page_vars, doc_commented, count_vars, placements, trace>>

Next == Plan \/ Replan \/ Render \/ NextPage \/ ProcessHit \/ Return

Spec == Init /\ [][Next]_vars

\* one plan-only call
OneCall == Plan \/ NextPage \/ ProcessHit \/ Return

ScanSpec == ScanInit /\ [][OneCall]_vars

\* two documents that differ in their first page only: the first pages of the two
\* calls, the template of the pages after them
FirstPages == { <<"margin", "line">>, <<"full", "image">>, <<"two_blocks", "margin">> }
PairInputs ==
    { [tpl |-> t, first |-> f, npages |-> MaxPages, items |-> it,
       cfg |-> [side |-> "right", fallbacks |-> <<TRUE, TRUE>>, scope |-> sc,
                gutter |-> DefaultCfg.allow_center_gutter,
                scan |-> <<DefaultCfg.scan_step, DefaultCfg.max_scan>>,
                footer_off |-> DefaultCfg.column_footer_max_offset,
                merge_tol |-> DefaultCfg.merge_duplicate_hits_tol]] :
        t \in TemplateNames, f \in FirstPages, it \in ItemLists, sc \in Scopes }

PairInit == inp \in PairInputs /\ Start

\* pages whose hits find no gap at their side, with the footer step enabled and a
\* column_footer_max_offset that the strip under the block meets or misses
FooterTemplateNames == {"full", "across"}
FooterOffsets == {DefaultCfg.column_footer_max_offset, 40 * PT}
FooterInputs ==
    { [tpl |-> t, npages |-> ScanPages, items |-> it,
       cfg |-> [side |-> "right", fallbacks |-> f, scope |-> DefaultCfg.dedupe_scope,
                gutter |-> DefaultCfg.allow_center_gutter,
                scan |-> <<DefaultCfg.scan_step, DefaultCfg.max_scan>>,
                footer_off |-> o, merge_tol |-> DefaultCfg.merge_duplicate_hits_tol]] :
        t \in FooterTemplateNames, it \in ItemLists, f \in {<<TRUE, FALSE>>, <<TRUE, TRUE>>},
        o \in FooterOffsets }

FooterInit == inp \in FooterInputs /\ Start

\* pages with occurrences close to one another, every scope, and a
\* merge_duplicate_hits_tol of 0.01, of the default 12, and of 0
SeamTemplateNames == {"seam", "line", "margin"}
MergeTols == {2, DefaultCfg.merge_duplicate_hits_tol, 0}
SeamInputs ==
    { [tpl |-> t, npages |-> MaxPages, items |-> it,
       cfg |-> [side |-> "right", fallbacks |-> <<TRUE, FALSE>>, scope |-> sc,
                gutter |-> DefaultCfg.allow_center_gutter,
                scan |-> <<DefaultCfg.scan_step, DefaultCfg.max_scan>>,
                footer_off |-> DefaultCfg.column_footer_max_offset, merge_tol |-> m]] :
        t \in SeamTemplateNames, it \in ItemLists, sc \in Scopes, m \in MergeTols }

SeamInit == inp \in SeamInputs /\ Start

\* the three calls on the inputs of the footer step
FooterSpec == FooterInit /\ [][Next]_vars

\* the three calls on the inputs with close occurrences
SeamSpec == SeamInit /\ [][Next]_vars

\* the plan-only call on the second document
PlanOther == call = 2 /\ Enter(TRUE, <<>>)

\* a plan-only call on each of the two documents
TwoCalls == Plan \/ PlanOther \/ NextPage \/ ProcessHit \/ Return

PairSpec == PairInit /\ [][TwoCalls]_vars

\* the parameters of highlight_and_margin_comment_pdf; it takes no **kwargs
Parameters ==
    {"pdf_path", "queries", "comments", "out_path", "highlight_color", "note_fill",
     "note_text", "note_border", "note_opacity", "note_fontsize", "note_fontname",
     "note_fontfile", "note_width", "min_note_width", "note_padding", "note_border_width",
     "draw_leader", "leader_color", "case_sensitive", "side", "scan_step", "max_scan",
     "max_vertical_offset", "within_block_pad", "allow_column_footer",
     "column_footer_max_offset", "column_footer_top_gap", "column_footer_side_pad",
     "enable_fallback", "fallback_zone", "merge_duplicate_hits_tol", "dedupe_note_y_tol",
     "allow_center_gutter", "center_gutter_tolerance", "wrap_tightness",
     "line_height_factor", "annotations_json", "dedupe_scope", "debug", "plan_only",
     "fixed_note_rects", "emit_callback"}

\* the keywords _build_preview_data_url passes to the engine
PreviewKeywords ==
    {"pdf_path", "queries", "comments", "annotations_json", "out_path", "note_width",
     "min_note_width", "note_fontsize", "note_fill", "note_border", "note_border_width",
     "note_text", "draw_leader", "leader_color", "allow_column_footer",
     "column_footer_max_offset", "max_vertical_offset", "max_scan", "side",
     "allow_center_gutter", "center_gutter_tolerance", "dedupe_scope", "note_fontname",
     "note_fontfile", "freeze_placements", "fixed_note_rects", "note_text_overrides",
     "note_fontsize_overrides", "note_rotations", "rotate_text_with_box"}

\* the binding of a call's keywords to the parameters: a keyword that names no
\* parameter raises TypeError before the body runs
Binds(keywords) == keywords \subseteq Parameters

\* the render call of the preview after a plan: the placements of the plan as
\* freeze_placements, their rectangles as fixed_note_rects
PreviewFrozen ==
    /\ call = 2
    /\ IF Binds(PreviewKeywords)
       THEN Enter(FALSE, FreezeMap(returned[1].placements))
       ELSE /\ pc = "idle"
            /\ pc' = "raised"
            /\ UNCHANGED <<inp, call, plan_only, fixed_note_rects, doc_words, highlights, pno,
                           page_hits, hix, page_vars, doc_commented, count_vars, placements,
                           trace, returned>>

\* a plan-only call, then the preview's render call with the plan frozen
PlanThenFreeze == Plan \/ NextPage \/ ProcessHit \/ Return \/ PreviewFrozen

FrozenSpec == Init /\ [][PlanThenFreeze]_vars

(***************************************************************************)
(* The entry of the engine: the normalization of its inputs up to the      *)
(* opening of the document.  Dicts are sequences of <<key, value>> pairs   *)
(* in insertion order.                                                     *)
(***************************************************************************)
Upper(c) == CASE c = "a" -> "A" [] c = "b" -> "B" [] c = "c" -> "C" [] OTHER -> c
UpperStr(s) == [i \in 1..Len(s) |-> Upper(s[i])]
IsCased(c) == Lower(c) # Upper(c)
\* k.title(): a cased character is upper after an uncased one (or at the start), lower
\* after a cased one
TitleStr(s) ==
    [i \in 1..Len(s) |-> IF i > 1 /\ IsCased(s[i - 1]) THEN Lower(s[i]) ELSE Upper(s[i])]

RECURSIVE LStrip(_)
LStrip(s) == IF Len(s) > 0 /\ IsSpace(s[1]) THEN LStrip(Tail(s)) ELSE s
RECURSIVE RStrip(_)
RStrip(s) ==
    IF Len(s) > 0 /\ IsSpace(s[Len(s)]) THEN RStrip(SubSeq(s, 1, Len(s) - 1)) ELSE s
\* s.strip()
Strip(s) == RStrip(LStrip(s))

\* k in d, d[k], d[k] = v and d.setdefault(k, v) on dicts
DictHas(d, k) == \E i \in 1..Len(d) : d[i][1] = k
DictGet(d, k) == d[CHOOSE i \in 1..Len(d) : d[i][1] = k][2]
DictSet(d, k, v) ==
    IF DictHas(d, k) THEN [i \in 1..Len(d) |-> IF d[i][1] = k THEN <<k, v>> ELSE d[i]]
    ELSE Append(d, <<k, v>>)
SetDefault(d, k, v) == IF DictHas(d, k) THEN d ELSE Append(d, <<k, v>>)
\* list(d.keys())
DictKeys(d) == [i \in 1..Len(d) |-> d[i][1]]

RECURSIVE ExpandFrom(_, _, _)
\* for k, v in d.items(): for var in (k, k.lower(), k.upper(), k.title()):
\*     out.setdefault(var, v)
ExpandFrom(d, i, out) ==
    IF i > Len(d) THEN out
    ELSE ExpandFrom(d, i + 1,
            SetDefault(SetDefault(SetDefault(SetDefault(out, d[i][1], d[i][2]),
                                             LowerStr(d[i][1]), d[i][2]),
                                  UpperStr(d[i][1]), d[i][2]),
                       TitleStr(d[i][1]), d[i][2]))

_expand_variants_preserving(d) == ExpandFrom(d, 1, <<>>)

\* the results of a step that may raise
Raised(msg) == [ok |-> FALSE, error |-> msg]
Value(v) == [ok |-> TRUE, value |-> v]

\* _NAMED_COLORS and the "#rrggbb" strings among the color strings of the inputs
NamedColors == {"yellow", "red", "orange", "gray", "black"}
HexColors == {"#FFFDE7"}
\* _parse_color on a string: the color, or ValueError
_parse_color(c) ==
    IF c \in NamedColors \cup HexColors THEN Value(c) ELSE Raised("Unrecognized color")
\* _parse_optional_color: None for None, "none", "transparent" and ""
_parse_optional_color(c) ==
    IF IsNone(c) THEN Value(None)
    ELSE IF The(c) \in {"none", "transparent", ""} THEN Value(None)
    ELSE IF _parse_color(The(c)).ok THEN Value(Some(_parse_color(The(c)).value))
    ELSE _parse_color(The(c))
\* _resolve_hi: the parsed color, the default when it is None or does not parse
_resolve_hi(cand, default_hi) ==
    IF ~_parse_optional_color(cand).ok THEN default_hi
    ELSE IF IsNone(_parse_optional_color(cand).value) THEN default_hi
    ELSE The(_parse_optional_color(cand).value)

\* f"Note: {q}"
NoteFor(q) == <<"N", "o", "t", "e", ":", " ">> \o q

\* q = (row.get("quote") or row.get("query") or "").strip()
RowQuote(row) ==
    Strip(IF ~IsNone(row.quote) /\ The(row.quote) # <<>> THEN The(row.quote)
          ELSE IF ~IsNone(row.query) /\ The(row.query) # <<>> THEN The(row.query)
          ELSE <<>>)

RECURSIVE LoadRows(_, _, _)
\* the loop over the rows of the annotations file
LoadRows(data, i, items) ==
    IF i > Len(data) THEN items
    ELSE IF ~data[i].is_dict \/ RowQuote(data[i]) = <<>> THEN LoadRows(data, i + 1, items)
    ELSE LoadRows(data, i + 1,
                  Append(items,
                         [quote |-> RowQuote(data[i]),
                          explanation |-> IF IsNone(data[i].explanation)
                                          THEN NoteFor(RowQuote(data[i]))
                                          ELSE The(data[i].explanation),
                          color |-> data[i].color]))

\* the items of the rows, or ValueError when there is none
LoadedItems(items) ==
    IF Len(items) = 0 THEN Raised("No valid items found in annotations JSON.")
    ELSE Value(items)

\* load_annotations_json on the parsed file: top is "object", "list" or "other"
load_annotations_json(file) ==
    IF file.top \notin {"object", "list"}
    THEN Raised("Annotations JSON must be a list or a single object.")
    ELSE LoadedItems(LoadRows(file.rows, 1, <<>>))

RECURSIVE DictOf(_, _, _, _)
\* {it["quote"]: it[field] for it in items}
DictOf(items, field, i, d) ==
    IF i > Len(items) THEN d
    ELSE DictOf(items, field, i + 1, DictSet(d, items[i].quote, items[i][field]))

RECURSIVE DictFor(_, _, _, _)
\* {q: v for q in qlist}
DictFor(qlist, v, i, d) ==
    IF i > Len(qlist) THEN d ELSE DictFor(qlist, v, i + 1, DictSet(d, qlist[i], v))

RECURSIVE WithNotes(_, _, _)
\* for q in qlist: comment_map.setdefault(q, f"Note: {q}")
WithNotes(qlist, i, d) ==
    IF i > Len(qlist) THEN d
    ELSE WithNotes(qlist, i + 1, SetDefault(d, qlist[i], NoteFor(qlist[i])))

\* the normalized inputs: qlist, comment_map and color_map_raw
Normalized(qlist, comment_map, color_map_raw) ==
    Value([qlist |-> qlist, comment_map |-> comment_map, color_map_raw |-> color_map_raw])

\* the JSON branch of the normalization, on what load_annotations_json returned
FromItems(loaded) ==
    IF ~loaded.ok THEN loaded
    ELSE Normalized([i \in 1..Len(loaded.value) |-> loaded.value[i].quote],
                    DictOf(loaded.value, "explanation", 1, <<>>),
                    DictOf(loaded.value, "color", 1, <<>>))

\* the queries / comments branch on the filtered qlist
FromQueries(qlist, comments, highlight_color) ==
    IF Len(qlist) = 0 THEN Raised("No valid queries.")
    ELSE Normalized(qlist,
                    IF comments.is_str THEN DictFor(qlist, comments.str, 1, <<>>)
                    ELSE WithNotes(qlist, 1, comments.dict),
                    DictFor(qlist, Some(highlight_color), 1, <<>>))

\* normalize inputs (JSON-aware)
NormalizeInputs(a) ==
    IF ~IsNone(a.annotations_json) THEN FromItems(load_annotations_json(The(a.annotations_json)))
    ELSE FromQueries(IF a.queries.is_str THEN <<a.queries.str>>
                     ELSE SelectSeq(a.queries.list, LAMBDA q : Strip(q) # <<>>),
                     a.comments, a.highlight_color)

\* the case-insensitive expansion when the search has no flag for it
Expanded(a, n) ==
    IF ~a.case_sensitive /\ ~a.ci_flag
    THEN [qlist |-> DictKeys(_expand_variants_preserving(n.comment_map)),
          comment_map |-> _expand_variants_preserving(n.comment_map),
          color_map_raw |-> _expand_variants_preserving(n.color_map_raw)]
    ELSE n

\* the color arguments that are parsed before the document is opened
ColorsParse(a) ==
    /\ _parse_color(a.highlight_color).ok
    /\ _parse_optional_color(a.note_fill).ok
    /\ _parse_color(a.note_text).ok
    /\ _parse_optional_color(a.note_border).ok
    /\ _parse_optional_color(a.leader_color).ok

\* per_highlight_color = {q: _resolve_hi(color_map_raw.get(q)) for q in qlist}
PerHighlightColor(e, default_hi) ==
    [i \in 1..Len(e.qlist) |->
        <<e.qlist[i],
          _resolve_hi(IF DictHas(e.color_map_raw, e.qlist[i])
                      THEN DictGet(e.color_map_raw, e.qlist[i]) ELSE None,
                      default_hi)>>]

\* the colors, for the expanded inputs e
WithColors(a, n, e) ==
    IF ~ColorsParse(a) THEN Raised("Unrecognized color")
    ELSE Value([given |-> n.comment_map, qlist |-> e.qlist, comment_map |-> e.comment_map,
                per_highlight_color |-> PerHighlightColor(e, a.highlight_color)])

\* the entry for the normalized inputs n, when the normalization did not raise
Prepared(a, n) == IF ~n.ok THEN n ELSE WithColors(a, n.value, Expanded(a, n.value))

\* lines 829-885 of highlight_and_margin_comment_pdf: what the page loop will read, or
\* the error raised
Prepare(a) == Prepared(a, NormalizeInputs(a))

\* quotes, explanations and rows of the inputs of the entry
EntryQuotes == { <<>>, <<" ">>, <<"A", "a">>, <<"a", "a">> }
RowPool ==
    { [is_dict |-> FALSE, quote |-> None, query |-> None, explanation |-> None, color |-> None],
      [is_dict |-> TRUE, quote |-> Some(<<"A", "a">>), query |-> None,
       explanation |-> Some(<<"x">>), color |-> Some("red")],
      [is_dict |-> TRUE, quote |-> Some(<<"a", "a">>), query |-> None,
       explanation |-> Some(<<"y">>), color |-> Some("bogus")],
      [is_dict |-> TRUE, quote |-> Some(<<" ">>), query |-> None,
       explanation |-> Some(<<"x">>), color |-> None],
      [is_dict |-> TRUE, quote |-> None, query |-> Some(<<"a", " ", "b">>),
       explanation |-> None, color |-> None] }
Files ==
    { [top |-> "other", rows |-> <<>>] }
    \cup { [top |-> "object", rows |-> <<r>>] : r \in RowPool \ {r \in RowPool : ~r.is_dict} }
    \cup { [top |-> "list", rows |-> rs] :
             rs \in UNION { [1..n -> RowPool] : n \in 0..MaxRows } }
QueryArgs ==
    { [is_str |-> TRUE, str |-> q, list |-> <<>>] : q \in EntryQuotes }
    \cup { [is_str |-> FALSE, str |-> <<>>, list |-> qs] :
             qs \in UNION { [1..n -> EntryQuotes] : n \in 0..MaxRows } }
CommentArgs ==
    { [is_str |-> TRUE, str |-> <<"x">>, dict |-> <<>>],
      [is_str |-> FALSE, str |-> <<>>, dict |-> << <<<<"A", "a">>, <<"y">>>> >>] }
\* the color arguments: the defaults, and an unrecognized highlight, text or leader color
ColorArgs ==
    { [highlight_color |-> h, note_fill |-> Some("#FFFDE7"), note_text |-> t,
       note_border |-> Some("orange"), leader_color |-> l] :
        h \in {"yellow", "bogus"}, t \in {"black", "bogus"}, l \in {Some("gray"), Some("bogus")} }
\* the arguments of a call: an annotations file, or queries and comments
EntryArgs(src, col, ci) ==
    [annotations_json |-> src.annotations_json, queries |-> src.queries,
     comments |-> src.comments, highlight_color |-> col.highlight_color,
     note_fill |-> col.note_fill, note_text |-> col.note_text,
     note_border |-> col.note_border, leader_color |-> col.leader_color,
     case_sensitive |-> FALSE, ci_flag |-> ci]
EntrySources ==
    { [annotations_json |-> Some(f), queries |-> [is_str |-> FALSE, str |-> <<>>, list |-> <<>>],
       comments |-> [is_str |-> TRUE, str |-> <<"x">>, dict |-> <<>>]] : f \in Files }
    \cup { [annotations_json |-> None, queries |-> q, comments |-> c] :
             q \in QueryArgs, c \in CommentArgs }
EntryInputs == { EntryArgs(src, col, ci) : src \in EntrySources, col \in ColorArgs, ci \in BOOLEAN }

EntryInit == inp \in EntryInputs /\ Start

\* an entry that opens the document before it looks at its inputs
OpenFirst ==
    /\ pc = "idle"
    /\ doc_words' = << <<>> >>
    /\ pc' = IF Prepare(inp).ok THEN "opened" ELSE "raised"
    /\ trace' = Append(trace, Prepare(inp))
    /\ UNCHANGED <<inp, call, plan_only, fixed_note_rects, highlights, pno, page_hits, hix,
                   page_vars, doc_commented, count_vars, placements, returned>>

\* the entry of highlight_and_margin_comment_pdf up to doc = fitz.open(pdf_path): the
\* inputs are normalized and the colors parsed; an error leaves the call before the
\* document is opened
Open ==
    /\ pc = "idle"
    /\ doc_words' = IF Prepare(inp).ok THEN << <<>> >> ELSE doc_words
    /\ pc' = IF Prepare(inp).ok THEN "opened" ELSE "raised"
    /\ trace' = Append(trace, Prepare(inp))
    /\ UNCHANGED <<inp, call, plan_only, fixed_note_rects, highlights, pno, page_hits, hix,
                   page_vars, doc_commented, count_vars, placements, returned>>

EntrySpec == EntryInit /\ [][Open]_vars

(***************************************************************************)
(* The simple wrapper _measure_height, which _measure_height_smart falls   *)
(* back to when fitz has no get_text_length, and textwrap.wrap under it    *)
(***************************************************************************)
RECURSIVE ChunksFrom(_, _, _, _)
\* TextWrapper._split_chunks: the runs of blanks and of other characters, in order
ChunksFrom(s, i, cur, acc) ==
    IF i > Len(s) THEN (IF cur = <<>> THEN acc ELSE Append(acc, cur))
    ELSE IF cur = <<>> \/ IsSpace(s[i]) = IsSpace(cur[1])
         THEN ChunksFrom(s, i + 1, Append(cur, s[i]), acc)
         ELSE ChunksFrom(s, i + 1, <<s[i]>>, Append(acc, cur))
Chunks(s) == ChunksFrom(s, 1, <<>>, <<>>)

\* chunk.strip() == ''
IsBlankChunk(c) == \A i \in 1..Len(c) : IsSpace(c[i])

RECURSIVE TakeFitting(_, _, _, _)
\* while chunks: the chunks that fit on the current line
TakeFitting(chunks, cur_line, cur_len, width) ==
    IF Len(chunks) > 0 /\ cur_len + Len(chunks[1]) <= width
    THEN TakeFitting(Tail(chunks), Append(cur_line, chunks[1]), cur_len + Len(chunks[1]), width)
    ELSE [line |-> cur_line, len |-> cur_len, rest |-> chunks]

\* _handle_long_word with break_long_words: a chunk longer than the width is cut to fill
\* the current line
HandleLongWord(t, width) ==
    IF Len(t.rest) > 0 /\ Len(t.rest[1]) > width
    THEN [line |-> Append(t.line, SubSeq(t.rest[1], 1, width - t.len)),
          rest |-> << SubSeq(t.rest[1], width - t.len + 1, Len(t.rest[1])) >> \o Tail(t.rest)]
    ELSE [line |-> t.line, rest |-> t.rest]

\* drop_whitespace: a blank chunk at the end of the line is dropped
DropTrailing(line) ==
    IF Len(line) > 0 /\ IsBlankChunk(line[Len(line)]) THEN SubSeq(line, 1, Len(line) - 1)
    ELSE line

RECURSIVE Concat(_)
\* ''.join(cur_line)
Concat(line) == IF Len(line) = 0 THEN <<>> ELSE line[1] \o Concat(Tail(line))

\* the line built from t, if any, added to lines
AddLine(lines, line) == IF Len(line) > 0 THEN Append(lines, Concat(line)) ELSE lines

RECURSIVE WrapChunks(_, _, _)
RECURSIVE WrapRest(_, _, _)
\* TextWrapper._wrap_chunks: a blank chunk at the start of a line after the first is
\* dropped, the line is filled, a long word is cut
WrapChunks(chunks, width, lines) ==
    IF Len(chunks) = 0 THEN lines
    ELSE WrapRest(HandleLongWord(TakeFitting(IF Len(lines) > 0 /\ IsBlankChunk(chunks[1])
                                             THEN Tail(chunks) ELSE chunks,
                                             <<>>, 0, width),
                                 width),
                  width, lines)
WrapRest(t, width, lines) == WrapChunks(t.rest, width, AddLine(lines, DropTrailing(t.line)))

\* textwrap.wrap(para, width=max_chars)
TextWrap(para, max_chars) == WrapChunks(Chunks(para), max_chars, <<>>)

RECURSIVE SimpleLines(_, _, _, _)
\* for para in text.splitlines() or [""]: lines.extend(textwrap.wrap(para, ...) or [""])
SimpleLines(paras, i, max_chars, lines) ==
    IF i > Len(paras) THEN lines
    ELSE SimpleLines(paras, i + 1, max_chars,
                     lines \o (IF Len(TextWrap(paras[i], max_chars)) = 0 THEN << <<>> >>
                               ELSE TextWrap(paras[i], max_chars)))

\* max_chars = max(1, int(width / max(1e-3, avg_char_w))) with avg_char_w = 0.5 * fontsize
MaxChars(width, fontsize) == Max(1, width \div Half(fontsize))

\* max(2 * fontsize, len(lines) * line_h) with line_h = 1.3 * fontsize
SimpleHeight(lines, fontsize) ==
    [lines |-> lines, height |-> Max(2 * fontsize, (Len(lines) * 13 * fontsize) \div 10)]

\* _measure_height: [lines, height]
_measure_height(text, width, fontsize) ==
    SimpleHeight(SimpleLines(Paragraphs(SplitLines(text)), 1, MaxChars(width, fontsize), <<>>),
                 fontsize)

\* _measure_height_smart from its first line: the simple wrapper when fitz has no
\* get_text_length
MeasureNote(get_text_length, text, width, fontsize, line_height_factor, tightness) ==
    IF get_text_length
    THEN _measure_height_smart(text, width, fontsize, line_height_factor, tightness)
    ELSE _measure_height(text, width, fontsize)

\* note texts, widths and font sizes of the inputs of the wrapper
MeasureTexts ==
    { <<"a", " ", "b">>,
      <<"a", " ", "b", "b", "b", "b", "b", "b", "b", " ", "c", "c">>,
      <<"a", "a", "a", " ", "b", "b", "\n", "c", " ", " ", "a">>,
      <<"b", "b", "b", "b", "b", "b", "b", "b", " ", "a", "a", "a", "a", "a", "a", "a", "a">> }
MeasureWidths == { 5 * k * PT : k \in 2..MaxWidthSteps }
MeasureFontSizes == { (17 * PT) \div 2, 10 * PT, 12 * PT }
\* a text, whether fitz has get_text_length, two widths w1 <= w2 and two font sizes
\* f2 <= f1
MeasureInputs ==
    { [text |-> t, get_text_length |-> g, w1 |-> w[1], w2 |-> w[2], f1 |-> f[1], f2 |-> f[2]] :
        t \in MeasureTexts, g \in BOOLEAN,
        w \in { w \in MeasureWidths \X MeasureWidths : w[1] <= w[2] },
        f \in { f \in MeasureFontSizes \X MeasureFontSizes : f[2] <= f[1] } }

MeasureInit == inp \in MeasureInputs /\ Start

\* the note text measured at w1 and f1, at the wider w2, and at the smaller f2
Remeasure ==
    /\ pc = "idle"
    /\ trace' = << [base |-> MeasureNote(inp.get_text_length, inp.text, inp.w1, inp.f1,
                                         DefaultCfg.line_height_factor,
                                         DefaultCfg.wrap_tightness),
                    wider |-> MeasureNote(inp.get_text_length, inp.text, inp.w2, inp.f1,
                                          DefaultCfg.line_height_factor,
                                          DefaultCfg.wrap_tightness),
                    smaller |-> MeasureNote(inp.get_text_length, inp.text, inp.w1, inp.f2,
                                            DefaultCfg.line_height_factor,
                                            DefaultCfg.wrap_tightness)] >>
    /\ pc' = "done"
    /\ UNCHANGED <<inp, call, plan_only, fixed_note_rects, doc_words, highlights, pno,
                   page_hits, hix, page_vars, doc_commented, count_vars, placements, returned>>

MeasureSpec == MeasureInit /\ [][Remeasure]_vars

(***************************************************************************)
(* The Band Packer on its own: bands, targets inside and outside the band, *)
(* sizes around the inset of the band, and obstacles.                      *)
(***************************************************************************)
MaxObstacles == 2

\* a margin of the page, the strip under a block, and a strip narrower than a point
\* once inset
PackBands == { RectPt(200, 0, 300, 220), RectPt(43, 76, 197, 212), Rect(40 * PT, 90 * PT, 46 * PT + 50, 212 * PT) }
\* targets: above, inside (near the top, the middle, near the bottom) and below the bands
PackCenters == { 36 * PT, 50 * PT, 80 * PT, 100 * PT, 110 * PT, 205 * PT, 216 * PT }
PackWidths == { 100, 56 * PT, 94 * PT, 95 * PT }
PackHeights == { 100, 8 * PT, 40 * PT, 214 * PT, 215 * PT }
PackSteps == { 6 * PT, 20 * PT }
\* notes placed before and padded text blocks that reach into the bands
PackObstacles == { RectPt(203, 20, 297, 60), RectPt(203, 60, 297, 100), RectPt(46, 79, 140, 107), RectPt(190, 150, 240, 160) }
PackLists ==
    { l \in UNION { [1..n -> PackObstacles] : n \in 0..MaxObstacles } :
        \A i, j \in 1..Len(l) : i < j => l[i] # l[j] }

PackInputs ==
    [band_rect : PackBands, y_center : PackCenters, w : PackWidths, h : PackHeights,
     placed : PackLists, text_rects : { l \in PackLists : Len(l) <= 1 }, step : PackSteps,
     pad : { 3 * PT }]

PackInit == inp \in PackInputs /\ Start

\* one call of _place_in_band
Pack ==
    /\ pc = "idle"
    /\ trace' = << [pos |-> _place_in_band(inp.band_rect, inp.y_center, inp.w, inp.h,
                                           inp.placed, inp.text_rects, inp.step, inp.pad)] >>
    /\ pc' = "done"
    /\ UNCHANGED <<inp, call, plan_only, fixed_note_rects, doc_words, highlights, pno,
                   page_hits, hix, page_vars, doc_commented, count_vars, placements, returned>>

PackSpec == PackInit /\ [][Pack]_vars

(***************************************************************************)
(* Properties                                                              *)
(***************************************************************************)
\* the notes of the running call so far, as history entries
Notes(tr) == SelectSeq(tr, LAMBDA e : e.outcome = "note")
\* the entries of the notes in placed: the notes of the page the loop is at, or has
\* just left
PageNotes == SubSeq(Notes(trace), Len(Notes(trace)) - Len(placed) + 1, Len(Notes(trace)))
\* the strategies that produced them
PagePaths == { PageNotes[i].path : i \in 1..Len(PageNotes) }

\* C1: in a call without overrides, the note rectangles finalized so far on the page
\* are pairwise disjoint and disjoint from every padded text-block rectangle of the
\* page, whichever of the gap, footer and fallback-zone steps produced them.
NoOverlap ==
    fixed_note_rects = <<>> =>
        /\ \A i, j \in 1..Len(placed) : i < j => ~Intersects(placed[i], placed[j])
        /\ \A i \in 1..Len(placed) : ~_intersects_any(placed[i], TextRects)

\* two notes on one page of a call without overrides, produced by the footer step and
\* the fallback zone
NoOverlapWitness ==
    /\ fixed_note_rects = <<>>
    /\ Len(placed) >= 2
    /\ {"footer", "zone"} \subseteq PagePaths

\* two notes on one page of a call without overrides, packed into the same gap
NoOverlapGapReached ==
    /\ fixed_note_rects = <<>>
    /\ Len(placed) >= 2
    /\ PagePaths = {"gap"}

\* the three counts a call returned
Counts(ret) == <<ret.total_hits, ret.total_notes, ret.total_skipped>>
\* what a caller observes of a placement list: uid and note_rect of each placement
Observed(P) == [i \in 1..Len(P) |-> <<P[i].uid, P[i].note_rect>>]
\* the uids of a placement list
Uids(P) == { P[i].uid : i \in 1..Len(P) }

\* C2: two plan-only calls with the same document, annotation list and configuration
\* and no overrides return the same placements (uid, anchor_rect and note_rect of each,
\* in the same order) and the same three counts.
Determinism ==
    (Len(returned) >= 2 /\ returned[2].fixed = <<>>) =>
        /\ returned[2].placements = returned[1].placements
        /\ Counts(returned[2]) = Counts(returned[1])

\* a second plan-only call without overrides has returned, after a first with two notes
DeterminismWitness ==
    /\ Len(returned) >= 2
    /\ returned[1].plan_only /\ returned[2].plan_only
    /\ returned[2].fixed = <<>>
    /\ Len(returned[1].placements) >= 2

\* C3: a plan-only call and a render call with the same document, annotation list,
\* configuration and override map finalize the same placements (uid and note_rect, in
\* the same order) and return the same three counts.
PlanRenderEquivalence ==
    Len(returned) = 3 =>
        /\ Observed(returned[3].placements) = Observed(returned[2].placements)
        /\ Counts(returned[3]) = Counts(returned[2])

\* the history entries of the notes of a returned call
NotesOf(ret) == Notes(ret.trace)
\* whether two history entries are about the same hit
SameHit(a, b) == a.page = b.page /\ a.q = b.q /\ a.hit = b.hit

\* C4: whatever the override map, the uid of a finalized hit is the uid of its page,
\* its normalized note text and the center of the hit, and so the uid the same hit has
\* in the call without overrides; the rectangle of the override is no part of it.
UidStableUnderOverride ==
    /\ \A i \in 1..Len(trace) :
          trace[i].outcome = "note" =>
              The(trace[i].placement).uid =
                  _make_uid(trace[i].page, trace[i].norm_ct,
                            MidX(trace[i].hit), MidY(trace[i].hit))
    /\ Len(returned) >= 2 =>
          \A i \in 1..Len(NotesOf(returned[1])), j \in 1..Len(NotesOf(returned[2])) :
              SameHit(NotesOf(returned[1])[i], NotesOf(returned[2])[j]) =>
                  The(NotesOf(returned[1])[i].placement).uid
                      = The(NotesOf(returned[2])[j].placement).uid

\* a call with an override has returned a note that lies on the rectangle of the
\* override, not on the rectangle computed for it
UidStableWitness ==
    /\ Len(returned) >= 2
    /\ \E j \in 1..Len(NotesOf(returned[2])) :
          LET e == NotesOf(returned[2])[j]
          IN  /\ The(e.placement).uid \in DOMAIN returned[2].fixed
              /\ The(e.placement).note_rect = returned[2].fixed[The(e.placement).uid]
              /\ The(e.placement).note_rect # The(e.pos)
              /\ \E i \in 1..Len(NotesOf(returned[1])) : SameHit(NotesOf(returned[1])[i], e)

\* C5: a call with an override map emits a note for the same hits as the call without
\* overrides on the same inputs: the same uids, the same total_notes and
\* total_skipped, and the same note_rect for every uid the map does not name.
OverridesOnlyAtFinalization ==
    Len(returned) >= 2 =>
        /\ Uids(returned[2].placements) = Uids(returned[1].placements)
        /\ returned[2].total_notes = returned[1].total_notes
        /\ returned[2].total_skipped = returned[1].total_skipped
        /\ \A i \in 1..Len(returned[1].placements), j \in 1..Len(returned[2].placements) :
              (/\ returned[1].placements[i].uid = returned[2].placements[j].uid
               /\ returned[1].placements[i].uid \notin DOMAIN returned[2].fixed)
              => returned[1].placements[i].note_rect = returned[2].placements[j].note_rect

\* C6: with P the placements of a plan-only call, a call on the same inputs whose
\* override map is {p.uid: p.note_rect for p in P} finalizes the placements of P, in
\* the same order, and returns the same counts.
FreezeRoundTrip ==
    \A k \in 2..Len(returned) :
        returned[k].fixed = FreezeMap(returned[1].placements) =>
            /\ returned[k].placements = returned[1].placements
            /\ Counts(returned[k]) = Counts(returned[1])

\* the same for the plan-only calls alone
FreezeRoundTripPlanOnly ==
    (Len(returned) >= 2 /\ returned[2].fixed = FreezeMap(returned[1].placements)) =>
        /\ returned[2].placements = returned[1].placements
        /\ Counts(returned[2]) = Counts(returned[1])

\* two history entries of one page, for two hits with the same normalized note text
\* whose centers lie within merge_duplicate_hits_tol of each other in x and in y
NearTwins(a, b) ==
    /\ a.page = b.page
    /\ a.hit # b.hit
    /\ a.norm_ct = b.norm_ct
    /\ Abs(MidX(a.hit) - MidX(b.hit)) <= Cfg.merge_duplicate_hits_tol
    /\ Abs(MidY(a.hit) - MidY(b.hit)) <= Cfg.merge_duplicate_hits_tol
\* the entries i < j of the running call that are such a pair
TwinPairs == { p \in (1..Len(trace)) \X (1..Len(trace)) :
                 p[1] < p[2] /\ NearTwins(trace[p[1]], trace[p[2]]) }
\* the outcomes of a hit passed over as a duplicate
DupOutcomes == {"dup_block", "dup_anchor", "dup_scope"}

\* C7 as stated: of two hits of one page with the same normalized note text and
\* centers within merge_duplicate_hits_tol in x and y, exactly one gets a note.
ExactlyOneNotePerTwins ==
    \A p \in TwinPairs :
        (trace[p[1]].outcome = "note") # (trace[p[2]].outcome = "note")

\* C7: of two such hits at most one gets a note, never both; once the first has its
\* note the second is passed over as a duplicate before any placement work.
AtMostOneNotePerTwins ==
    \A p \in TwinPairs :
        /\ ~(trace[p[1]].outcome = "note" /\ trace[p[2]].outcome = "note")
        /\ trace[p[1]].outcome = "note" =>
              (trace[p[2]].outcome \in DupOutcomes /\ trace[p[2]].tried = <<>>)

\* two such hits in different blocks, the first with a note and the second merged
\* into it by the distance of their centers
TwinsWitness ==
    \E p \in TwinPairs :
        /\ trace[p[1]].outcome = "note"
        /\ trace[p[2]].outcome = "dup_anchor"
        /\ trace[p[1]].blk_idx # trace[p[2]].blk_idx

\* the unit of the configured scope a history entry falls into
ScopeUnit(e) ==
    CASE Cfg.dedupe_scope = "block" -> <<e.page, e.blk_idx, e.norm_ct>>
      [] Cfg.dedupe_scope = "page" -> <<e.page, e.norm_ct>>
      [] Cfg.dedupe_scope = "document" -> <<e.norm_ct>>

\* C8: the notes emitted so far hold at most one note per normalized note text and
\* unit of the configured scope (page and block, page, or document); under the page
\* and document scopes a hit whose text already has a note in its unit is passed over
\* as a duplicate before the gap search, the footer step or the Band Packer run for it.
DedupScope ==
    /\ \A i, j \in 1..Len(Notes(trace)) :
          i < j => ScopeUnit(Notes(trace)[i]) # ScopeUnit(Notes(trace)[j])
    /\ Cfg.dedupe_scope \in {"page", "document"} =>
          \A i, j \in 1..Len(trace) :
              (i < j /\ trace[i].outcome = "note" /\ ScopeUnit(trace[i]) = ScopeUnit(trace[j]))
              => (trace[j].outcome \in DupOutcomes /\ trace[j].tried = <<>>)

\* a hit passed over by the scope test alone: its text has a note in another block of
\* the unit, and neither the block test nor the merge of near hits applies to it
DedupScopeWitness ==
    \E i, j \in 1..Len(trace) :
        /\ i < j
        /\ trace[i].outcome = "note"
        /\ trace[j].outcome = "dup_scope"
        /\ trace[j].tried = <<>>
        /\ ScopeUnit(trace[i]) = ScopeUnit(trace[j])
        /\ trace[i].hit # trace[j].hit

\* the place of step x in the steps tried for a hit, 0 when it was not tried
Place(tried, x) ==
    IF \E k \in 1..Len(tried) : tried[k] = x
    THEN CHOOSE k \in 1..Len(tried) : tried[k] = x
    ELSE 0

\* C9 as stated: when the gap search accepted a gap for a hit and the Band Packer found
\* no free rectangle in its band, the footer step (if enabled) and the fallback zone
\* (if enabled) run for the hit before it is counted as skipped.
BandFailureFallsBack ==
    \A i \in 1..Len(trace) :
        trace[i].band_failed =>
            /\ Cfg.allow_column_footer =>
                  Place(trace[i].tried, "footer") > Place(trace[i].tried, "band")
            /\ Cfg.enable_fallback =>
                  Place(trace[i].tried, "zone") > Place(trace[i].tried, "band")

\* C10: for every hit the steps run in the order gap search, footer, fallback zone;
\* the footer runs only when the gap search left no accepted candidate, the zone only
\* when enable_fallback is set and neither the gap search nor the footer left a
\* position; a note comes from the first step that left one, and a hit is finalized
\* at most once.
StrategyOrder ==
    /\ \A i \in 1..Len(trace) :
          LET e == trace[i]
          IN  e.tried # <<>> =>
                /\ Place(e.tried, "gap") = 1
                /\ Place(e.tried, "footer") > 0 =>
                      (IsNone(e.gap) /\ Cfg.allow_column_footer
                       /\ Place(e.tried, "footer") = 2)
                /\ Place(e.tried, "zone") > 0 =>
                      (/\ Cfg.enable_fallback /\ IsNone(e.gap) /\ IsNone(e.footer_pos)
                       /\ Place(e.tried, "zone") > Place(e.tried, "footer"))
                /\ e.outcome = "note" =>
                      e.path = (IF ~IsNone(e.gap) THEN "gap"
                                ELSE IF ~IsNone(e.footer_pos) THEN "footer" ELSE "zone")
    /\ Len(placements) = Len(Notes(trace))
    /\ \A i \in 1..Len(placements) : placements[i] = The(Notes(trace)[i].placement)

\* a hit for which the gap search left nothing, the footer step ran and left nothing,
\* and the fallback zone gave the note
StrategyOrderWitness ==
    \E i \in 1..Len(trace) :
        /\ trace[i].tried = <<"gap", "footer", "zone">>
        /\ trace[i].outcome = "note"
        /\ trace[i].path = "zone"

\* C11: a pass of the hit loop that ends with the hit skipped adds one to
\* total_skipped, emits no placement, leaves placed, the anchor and note-y lists, the
\* block, page and document commented sets, the page's words and the counts of hits
\* and notes as they were, and moves the loop on to the next hit of the page.
SkipIsTerminal ==
    [][(Len(trace') = Len(trace) + 1 /\ trace'[Len(trace')].outcome = "skipped") =>
          /\ total_skipped' = total_skipped + 1
          /\ UNCHANGED <<placements, placed, anchors_by_comment, note_y_by_comment, commented,
                         page_commented, doc_commented, doc_words, total_hits, total_notes,
                         highlights>>
          /\ hix' = hix + 1
          /\ (hix < Len(page_hits) => pc' = "hit")]_vars

\* a hit was skipped and the next hit of the page got its note
SkipIsTerminalWitness ==
    \E i \in 1..(Len(trace) - 1) :
        /\ trace[i].outcome = "skipped"
        /\ trace[i + 1].outcome = "note"
        /\ trace[i + 1].page = trace[i].page
        /\ total_skipped >= 1
        /\ total_hits >= 2

\* the notes of the history that came through the gap path
GapNotes == SelectSeq(trace, LAMBDA e : e.outcome = "note" /\ e.path = "gap")
\* the gaps at height y of the page as the call found it
GapsAt(y) == _free_gaps_at_y(Tpl.words, PageBox, y)
\* whether a gap wide enough for a note lies on the given side of the block at height y
SideGapAt(y, blk_rect, side) ==
    \E i \in 1..Len(GapsAt(y)) :
        /\ GapsAt(y)[i][2] - GapsAt(y)[i][1] >= Cfg.min_note_width + 6 * PT
        /\ \/ side = "right" /\ GapsAt(y)[i][1] >= blk_rect.x1
           \/ side = "left" /\ GapsAt(y)[i][2] <= blk_rect.x0
\* whether the note of entry e lies on the given side of its anchor block
OnSide(e, side) ==
    \/ side = "right" /\ The(e.pos).x0 >= e.blk_rect.x1
    \/ side = "left" /\ The(e.pos).x1 <= e.blk_rect.x0
\* whether a gap around the page's center line is wide enough for a note at height y
CenterGapAt(y) ==
    Len(CenterCands(GapsAt(y), 1, Half(PageBox.x0 + PageBox.x1), Cfg.center_gutter_tolerance,
                    Cfg.note_width, Cfg.min_note_width, <<>>)) > 0
\* the counts of a call on a document with one occurrence per page, each with its note
OneNoteEach(ret) ==
    ret.total_hits = inp.npages /\ ret.total_notes = inp.npages /\ ret.total_skipped = 0

\* C12 as stated: with side 'right' or 'left', a note placed through the gap path
\* lies on that side of its anchor block whenever a gap wide enough lies on that side
\* at the chosen height, and a single occurrence with such a margin at its own height
\* gives 1 highlight, 1 note and 0 skipped.
SidePreference ==
    Cfg.side \in {"left", "right"} =>
        /\ \A i \in 1..Len(GapNotes) :
              SideGapAt(The(GapNotes[i].found).cy, GapNotes[i].blk_rect, Cfg.side)
                  => OnSide(GapNotes[i], Cfg.side)
        /\ \A k \in 1..Len(returned) :
              (\A i \in 1..Len(returned[k].trace) :
                  SideGapAt(returned[k].trace[i].cy0, returned[k].trace[i].blk_rect, Cfg.side))
                  => OneNoteEach(returned[k])

\* C12, amended: the same, unless the center-gutter preference is on and a gap around
\* the page's center line is wide enough at the chosen height: that gap is taken first.
SidePreferenceUnlessGutter ==
    Cfg.side \in {"left", "right"} =>
        /\ \A i \in 1..Len(GapNotes) :
              (/\ SideGapAt(The(GapNotes[i].found).cy, GapNotes[i].blk_rect, Cfg.side)
               /\ ~(Cfg.allow_center_gutter /\ CenterGapAt(The(GapNotes[i].found).cy)))
                  => OnSide(GapNotes[i], Cfg.side)
        /\ \A k \in 1..Len(returned) :
              (\A i \in 1..Len(returned[k].trace) :
                  SideGapAt(returned[k].trace[i].cy0, returned[k].trace[i].blk_rect, Cfg.side))
                  => OneNoteEach(returned[k])

\* a call with side 'left' returned one note per page, placed through the gap path to
\* the left of its block, on a page that has a wide gap on either side
SidePreferenceWitness ==
    /\ Cfg.side = "left"
    /\ Len(returned) = 1
    /\ OneNoteEach(returned[1])
    /\ \A i \in 1..Len(trace) :
          /\ trace[i].outcome = "note" /\ trace[i].path = "gap"
          /\ SideGapAt(The(trace[i].found).cy, trace[i].blk_rect, "left")
          /\ SideGapAt(The(trace[i].found).cy, trace[i].blk_rect, "right")
          /\ OnSide(trace[i], "left")

\* the hits of the history that reached the gap search
Searches == SelectSeq(trace, LAMBDA e : e.prefer # "none")
\* the distance from the hit's right edge to the page's right edge, and from the
\* page's left edge to the hit's left edge
RightRoom(e) == PageBox.x1 - e.hit.x1
LeftRoom(e) == e.hit.x0 - PageBox.x0

\* C13 as stated: with side 'nearest' the side handed to the gap chooser is the side
\* with more room: 'right' when the hit's right edge is farther from the page's right
\* edge than its left edge is from the page's left edge, 'left' in the opposite case.
NearestSideHasMoreRoom ==
    Cfg.side = "nearest" =>
        \A i \in 1..Len(Searches) :
            /\ RightRoom(Searches[i]) > LeftRoom(Searches[i]) => Searches[i].prefer = "right"
            /\ RightRoom(Searches[i]) < LeftRoom(Searches[i]) => Searches[i].prefer = "left"

\* C13, amended: with side 'nearest' the side handed to the gap chooser is the side
\* whose page edge is nearer to the hit: 'right' when the hit's right edge is no
\* farther from the page's right edge than its left edge is from the page's left
\* edge, 'left' otherwise.
NearestSideIsNearer ==
    Cfg.side = "nearest" =>
        \A i \in 1..Len(Searches) :
            Searches[i].prefer = IF RightRoom(Searches[i]) <= LeftRoom(Searches[i])
                                 THEN "right" ELSE "left"

\* with side 'nearest', a hit nearer to the right edge of the page was searched with
\* the right side preferred
NearestSideWitness ==
    /\ Cfg.side = "nearest"
    /\ \E i \in 1..Len(Searches) :
          /\ RightRoom(Searches[i]) < LeftRoom(Searches[i])
          /\ Searches[i].prefer = "right"

\* the chooser of the search of entry e at height y, as the scan calls it: not at all
\* at a height off cy0 that lies in the page's 6-unit margins
ChooserOf(e, y) ==
    IF y # e.cy0 /\ (y <= PageBox.y0 + 6 * PT \/ y >= PageBox.y1 - 6 * PT) THEN None
    ELSE Chooser(Tpl.words, PageBox, e.blk_rect, y, GapArgs(e.prefer, Cfg))
\* the place of height cy0 + off in the order cy0, cy0 + step, cy0 - step, cy0 + 2 step, ...
ScanRank(off, step) == IF off > 0 THEN 2 * (off \div step) - 1 ELSE 2 * ((-off) \div step)
\* the offsets of the scan up to distance max
ScanOffsets(step, max) == { j * step : j \in (-(max \div step))..(max \div step) }

\* C14: the gap search examines cy0, cy0 + scan_step, cy0 - scan_step, cy0 + 2 scan_step,
\* ... and returns the first height at which the chooser yields a gap; the height it
\* returns is within max_scan of cy0, whatever scan_step and max_scan are, and it
\* fails when no height within max_scan yields a gap.
ScanWithinMaxScan ==
    \A i \in 1..Len(Searches) :
        IF IsNone(Searches[i].found)
        THEN \A off \in ScanOffsets(Cfg.scan_step, Cfg.max_scan) :
                IsNone(ChooserOf(Searches[i], Searches[i].cy0 + off))
        ELSE /\ Abs(The(Searches[i].found).cy - Searches[i].cy0) <= Cfg.max_scan
             /\ (The(Searches[i].found).cy - Searches[i].cy0) % Cfg.scan_step = 0
             /\ \A off \in ScanOffsets(Cfg.scan_step, Cfg.max_scan) :
                    ScanRank(off, Cfg.scan_step)
                        < ScanRank(The(Searches[i].found).cy - Searches[i].cy0, Cfg.scan_step)
                    => IsNone(ChooserOf(Searches[i], Searches[i].cy0 + off))

\* C15: every height the gap search returns lies strictly inside the page's 6-unit
\* top and bottom margins, wherever on the page the hit is.
ScanInsideMargins ==
    \A i \in 1..Len(Searches) :
        ~IsNone(Searches[i].found) =>
            /\ PageBox.y0 + 6 * PT < The(Searches[i].found).cy
            /\ The(Searches[i].found).cy < PageBox.y1 - 6 * PT

\* the gap and the final width the search of entry e returned
FoundGap(e) == The(e.found).cand[1]
FoundWidth(e) == The(e.found).cand[2]

\* C16: a gap the search returns is at least min_note_width + 6 wide, the final width
\* is min(note_width, max(min_note_width, gap width - 6)), and a note placed through
\* the gap path lies inside its gap: gap.x0 + 3 <= note.x0 and note.x1 <= gap.x1 - 3.
NoteInsideGap ==
    /\ \A i \in 1..Len(Searches) :
          ~IsNone(Searches[i].found) =>
              /\ FoundGap(Searches[i])[2] - FoundGap(Searches[i])[1]
                     >= Cfg.min_note_width + 6 * PT
              /\ FoundWidth(Searches[i])
                     = Min(Cfg.note_width,
                           Max(Cfg.min_note_width,
                               FoundGap(Searches[i])[2] - FoundGap(Searches[i])[1] - 6 * PT))
    /\ \A i \in 1..Len(GapNotes) :
          /\ FoundGap(GapNotes[i])[1] + 3 * PT <= The(GapNotes[i].pos).x0
          /\ The(GapNotes[i].pos).x1 <= FoundGap(GapNotes[i])[2] - 3 * PT
          /\ Width(The(GapNotes[i].pos)) = FoundWidth(GapNotes[i])

\* a note was placed through a gap narrower than the requested width plus 6: its
\* width is the gap's width less 6 and it fills the gap up to the 3-unit insets
NoteInsideGapWitness ==
    \E i \in 1..Len(GapNotes) :
        /\ FoundGap(GapNotes[i])[2] - FoundGap(GapNotes[i])[1] < Cfg.note_width + 6 * PT
        /\ FoundWidth(GapNotes[i]) < Cfg.note_width
        /\ The(GapNotes[i].pos).x0 = FoundGap(GapNotes[i])[1] + 3 * PT
        /\ The(GapNotes[i].pos).x1 = FoundGap(GapNotes[i])[2] - 3 * PT

\* C17: the uid of every placement is the uid of its own page_index, its normalized
\* explanation and the center of its anchor_rect, so that two placements of a page
\* with the same normalized text and the same anchor rectangle have the same uid.
UidFromAnchorRect ==
    /\ \A i \in 1..Len(placements) :
          placements[i].uid = _make_uid(placements[i].page_index,
                                        NormCt(placements[i].explanation),
                                        MidX(placements[i].anchor_rect),
                                        MidY(placements[i].anchor_rect))
    /\ \A i, j \in 1..Len(placements) :
          (/\ placements[i].page_index = placements[j].page_index
           /\ NormCt(placements[i].explanation) = NormCt(placements[j].explanation)
           /\ placements[i].anchor_rect = placements[j].anchor_rect)
              => placements[i].uid = placements[j].uid

\* the comment map as given and as expanded, once the entry has expanded it
ExpansionDone == pc = "opened" /\ ~inp.case_sensitive /\ ~inp.ci_flag
GivenMap == trace[1].value.given
ExpandedMap == trace[1].value.comment_map

\* C18: the expansion maps every key k of the given map d to d[k], and k.lower(),
\* k.upper() and k.title() to d[k] as well, also when two keys of d are case variants
\* of one another with different values.
ExpansionPreserves ==
    ExpansionDone =>
        \A i \in 1..Len(GivenMap) :
            \A var \in { GivenMap[i][1], LowerStr(GivenMap[i][1]), UpperStr(GivenMap[i][1]),
                         TitleStr(GivenMap[i][1]) } :
                DictHas(ExpandedMap, var) /\ DictGet(ExpandedMap, var) = GivenMap[i][2]

\* an empty or all-blank list of queries
BlankQueries ==
    /\ IsNone(inp.annotations_json)
    /\ ~inp.queries.is_str
    /\ \A i \in 1..Len(inp.queries.list) : Strip(inp.queries.list[i]) = <<>>
\* the rows of the annotations file that are objects with a quote
ValidRows ==
    IF IsNone(inp.annotations_json) THEN <<>>
    ELSE SelectSeq(The(inp.annotations_json).rows,
                   LAMBDA r : r.is_dict /\ RowQuote(r) # <<>>)
\* an annotations file that is neither an object nor a list, or has no valid item
BadFile ==
    /\ ~IsNone(inp.annotations_json)
    /\ (The(inp.annotations_json).top \notin {"object", "list"} \/ Len(ValidRows) = 0)
\* a color string that is no named color and no "#rrggbb"
Unrecognized(c) == c \notin NamedColors \cup HexColors
UnrecognizedOptional(c) ==
    ~IsNone(c) /\ The(c) \notin {"none", "transparent", ""} /\ Unrecognized(The(c))
\* an unrecognized color among the color arguments
BadColorArgument ==
    \/ Unrecognized(inp.highlight_color)
    \/ Unrecognized(inp.note_text)
    \/ UnrecognizedOptional(inp.note_fill)
    \/ UnrecognizedOptional(inp.note_border)
    \/ UnrecognizedOptional(inp.leader_color)
\* an unrecognized color on an item of the annotations file
BadItemColor == \E i \in 1..Len(ValidRows) : UnrecognizedOptional(ValidRows[i].color)
\* the call has raised: the document was not opened, nothing was searched, highlighted or
\* returned
FailedFast ==
    /\ pc = "raised"
    /\ doc_words = <<>>
    /\ highlights = 0
    /\ total_hits = 0
    /\ placements = <<>>
    /\ returned = <<>>

\* C19 as stated: an empty or all-blank query list, an annotations file without a
\* valid item or of the wrong top-level type, or any unrecognized color string makes
\* the call raise before the document is opened; nothing is returned or written.
InputErrorsFailFast ==
    (pc # "idle" /\ (BlankQueries \/ BadFile \/ BadColorArgument \/ BadItemColor))
        => FailedFast

\* C19, amended: the same for an unrecognized color among the color arguments
\* (highlight_color, note_fill, note_text, note_border, leader_color); an unrecognized
\* color on an item of the annotations file raises nothing: the call goes on to open
\* the document.
ArgumentErrorsFailFast ==
    /\ (pc # "idle" /\ (BlankQueries \/ BadFile \/ BadColorArgument)) => FailedFast
    /\ (pc # "idle" /\ BadItemColor /\ ~BadFile /\ ~BadColorArgument) =>
          pc = "opened" /\ doc_words # <<>>

\* the call raised on an unrecognized color argument, with a list of queries that has a
\* valid one, before the document was opened
ArgumentErrorsWitness ==
    /\ FailedFast
    /\ BadColorArgument
    /\ ~BlankQueries /\ ~BadFile
    /\ ~inp.queries.is_str /\ IsNone(inp.annotations_json)

\* C20: for a fixed note text and measuring function, the height the wrapper returns
\* for a width w2 >= w1 is no greater than for w1 (font size fixed), and the height for
\* a font size f2 <= f1 is no greater than for f1 (width fixed).
HeightMonotone ==
    pc = "done" =>
        /\ trace[1].wider.height <= trace[1].base.height
        /\ trace[1].smaller.height <= trace[1].base.height

\* the pages of the opened document hold what the source document holds
DocumentUntouched == \A p \in DOMAIN doc_words : doc_words[p] = Tpl.words

\* a call is running, or has just returned
InCall == pc \in {"page", "hit"} \/ (pc = "idle" /\ call > 1)

\* C21: in a run with plan_only = True no highlight annotation, note box, text or leader
\* line is added to any page of the opened document and no output document is saved.
PlanOnlyDoesNotMutate ==
    /\ (InCall /\ plan_only) => (highlights = 0 /\ DocumentUntouched)
    /\ \A i \in DOMAIN returned :
          returned[i].plan_only => (~returned[i].saved /\ returned[i].highlights = 0)

\* the part of C21 about notes and saving: a plan-only run draws no note and saves no
\* document, a render run that placed a note drew it and saved
PlanOnlyDrawsNoNote ==
    /\ (InCall /\ plan_only) => DocumentUntouched
    /\ \A i \in DOMAIN returned : returned[i].saved = ~returned[i].plan_only
    /\ (pc = "done" /\ total_notes > 0) => ~DocumentUntouched

\* the occurrences of the i-th quote of the list on a page, as the search finds them
OccsOf(i) == _dedup_rects(Tpl.hits[QList(inp.items)[i]])
\* the (quote, occurrence) pairs of a page, as <<position in the list, position among
\* the occurrences>>
HitPairs == UNION { { <<i, j>> : j \in 1..Len(OccsOf(i)) } : i \in 1..Len(inp.items) }
\* the place of a pair in the order (quote as supplied, occurrence as found)
RankOf(pr) ==
    Cardinality({ o \in HitPairs : o[1] < pr[1] \/ (o[1] = pr[1] /\ o[2] <= pr[2]) })
\* the passes of the hit loop on page p (from 0) so far
PageTrace(p) == SelectSeq(trace, LAMBDA e : e.page = p)
\* the final rectangles of the notes finalized so far on page p (from 0)
FinalizedOn(p) ==
    LET mine == SelectSeq(placements, LAMBDA n : n.page_index = p)
    IN  [k \in 1..Len(mine) |-> mine[k].note_rect]

\* C22: pages are processed in document order and, within a page, hits in the order
\* (quote as supplied, occurrence as found); the placement list is in that order; and
\* when a hit's rectangle is chosen, placed holds exactly the final rectangles of the
\* notes finalized earlier on the same page.
ProcessingOrder ==
    /\ \A a, b \in 1..Len(trace) : a < b => trace[a].page <= trace[b].page
    /\ \A p \in 0..(inp.npages - 1) :
          /\ \A k \in 1..Len(PageTrace(p)) :
                \E pr \in HitPairs :
                    /\ RankOf(pr) = k
                    /\ PageTrace(p)[k].q = QList(inp.items)[pr[1]]
                    /\ PageTrace(p)[k].hit = OccsOf(pr[1])[pr[2]]
          /\ (pc \in {"page", "hit"} /\ p < pno - 1) =>
                Len(PageTrace(p)) = Cardinality(HitPairs)
    /\ placements = [k \in 1..Len(Notes(trace)) |-> The(Notes(trace)[k].placement)]
    /\ pc = "hit" => placed = FinalizedOn(pno - 1)

\* the hit loop is on the second page, past a note of each of two quotes on the first
\* page and a note on the second, with another pair still to place
ProcessingOrderWitness ==
    /\ pc = "hit"
    /\ pno = 2
    /\ Len(placed) >= 1
    /\ Len(FinalizedOn(0)) >= 2
    /\ \E a, b \in 1..Len(PageTrace(0)) :
          /\ PageTrace(0)[a].q # PageTrace(0)[b].q
          /\ PageTrace(0)[a].outcome = "note" /\ PageTrace(0)[b].outcome = "note"

\* the passes and the placements of a returned call on the pages after the first
RestOf(ret) == SelectSeq(ret.trace, LAMBDA e : e.page >= 1)
RestPlacements(ret) == SelectSeq(ret.placements, LAMBDA n : n.page_index >= 1)
\* the passes of a returned call on the first page, by what a caller can tell of them
FirstOf(ret) ==
    LET mine == SelectSeq(ret.trace, LAMBDA e : e.page = 0)
    IN  [k \in 1..Len(mine) |-> <<mine[k].q, mine[k].outcome, mine[k].pos>>]
\* both documents have been planned
BothPlanned == Len(returned) = 2

\* C23: placed and the per-text anchor and note-y bookkeeping are empty at the start of
\* every page, so with dedupe_scope 'block' or 'page' the placements and skip decisions
\* of a page are the same whatever the other pages hold: two documents that differ in
\* their first page only get the same passes and placements on every later page.
PerPageIsolation ==
    /\ (pc = "hit" /\ hix = 1) =>
          /\ placed = <<>> /\ anchors_by_comment = <<>> /\ note_y_by_comment = <<>>
          /\ page_commented = {} /\ commented = {}
    /\ (BothPlanned /\ Cfg.dedupe_scope \in {"block", "page"}) =>
          /\ RestOf(returned[1]) = RestOf(returned[2])
          /\ RestPlacements(returned[1]) = RestPlacements(returned[2])

\* under 'block' or 'page' the two documents came out differently on their first pages
\* and alike on the second, which has a note and a pass without one
PerPageIsolationWitness ==
    /\ BothPlanned
    /\ Cfg.dedupe_scope \in {"block", "page"}
    /\ FirstOf(returned[1]) # FirstOf(returned[2])
    /\ Len(RestPlacements(returned[1])) >= 1
    /\ \E k \in 1..Len(RestOf(returned[2])) : RestOf(returned[2])[k].outcome # "note"

\* under 'document' the texts commented on the first page decide what a later page gets
DocumentScopeCarries ==
    /\ BothPlanned
    /\ Cfg.dedupe_scope = "document"
    /\ RestOf(returned[1]) # RestOf(returned[2])

\* the preview's call with the frozen plan is over
FrozenCallOver == pc = "raised" \/ (call = 3 /\ pc = "idle")
\* what a frozen placement fixes: uid, text and rectangle
Frozen(P) == [i \in 1..Len(P) |-> <<P[i].uid, P[i].explanation, P[i].note_rect>>]

\* C24: the engine's entry point accepts a freeze list of previously computed
\* placements, as the callers pass it via freeze_placements together with
\* fixed_note_rects and the rotation, text and font-size overrides, and emits those
\* placements with their uid, text and rectangle verbatim.
FrozenModeEmitsVerbatim ==
    FrozenCallOver =>
        /\ pc # "raised"
        /\ Len(returned) = 2
        /\ Frozen(returned[2].placements) = Frozen(returned[1].placements)

\* the band inset by pad on all sides
Inset(band_rect, pad) == Grow(band_rect, pad, pad, -pad, -pad)
\* r lies within b
Within(r, b) == b.x0 <= r.x0 /\ r.x1 <= b.x1 /\ b.y0 <= r.y0 /\ r.y1 <= b.y1
\* the clamped rectangle of target y_mid collides with nothing
Clear(a, y_mid) ==
    /\ ~_intersects_any(BandMake(a.band_rect, y_mid, a.w, a.h, a.pad), a.placed)
    /\ ~_intersects_any(BandMake(a.band_rect, y_mid, a.w, a.h, a.pad), a.text_rects)
\* the n-th offset of 0, +step, -step, +2*step, -2*step, ...: n from 0
OffsetAt(n, step) == IF n % 2 = 1 THEN ((n + 1) \div 2) * step ELSE -((n \div 2) * step)
\* the offsets of rounds 0..BandRounds that can differ in their clamped rectangle: past
\* the band on both sides every target clamps to the top or the bottom of the band
OffsetsToTry(a) ==
    0..Min(2 * BandRounds,
           2 * ((Height(a.band_rect) + Abs(a.y_center - MidY(a.band_rect))) \div a.step + 1))

\* the result of the call
Packed == trace[1].pos
\* the offsets whose clamped rectangle is collision-free, by their place in the order
ClearOffsets(a) == { n \in OffsetsToTry(a) : Clear(a, a.y_center + OffsetAt(n, a.step)) }
\* the least of a non-empty set of numbers
Least(S) == CHOOSE n \in S : \A m \in S : n <= m
\* w or h exceeds the band inset by pad
TooLarge(a) == a.w > Width(Inset(a.band_rect, a.pad)) \/ a.h > Height(Inset(a.band_rect, a.pad))

\* returns None if w or h exceeds the band inset by pad
PackerRefusesTooLarge == (pc = "done" /\ TooLarge(inp)) => IsNone(Packed)

\* returns the candidate of the first offset of 0, +step, -step, ... whose clamped
\* rectangle is collision-free
PackerTakesFirstClear ==
    (pc = "done" /\ ~TooLarge(inp)) =>
        IF ClearOffsets(inp) = {} THEN IsNone(Packed)
        ELSE Packed = Some(BandMake(inp.band_rect,
                                    inp.y_center + OffsetAt(Least(ClearOffsets(inp)), inp.step),
                                    inp.w, inp.h, inp.pad))

\* a returned rectangle has width w, height h and x0 = band.x0 + pad, lies within the
\* band inset by pad and intersects no placed rectangle and no padded text block
PackerRectangle ==
    (pc = "done" /\ ~IsNone(Packed)) =>
        /\ Width(The(Packed)) = inp.w /\ Height(The(Packed)) = inp.h
        /\ The(Packed).x0 = inp.band_rect.x0 + inp.pad
        /\ Within(The(Packed), Inset(inp.band_rect, inp.pad))
        /\ ~_intersects_any(The(Packed), inp.placed)
        /\ ~_intersects_any(The(Packed), inp.text_rects)

\* C25: _place_in_band returns None if w or h exceeds the band inset by pad, otherwise
\* the candidate of the first of the offsets 0, +step, -step, +2*step, -2*step, ... (at
\* most 2001 rounds) whose clamped rectangle is collision-free; a returned rectangle
\* has exactly width w and height h and x0 = band.x0 + pad, lies within the band inset
\* by pad on all sides and intersects no placed and no padded text-block rectangle.
BandPackerResult == PackerRefusesTooLarge /\ PackerTakesFirstClear /\ PackerRectangle

\* the target of the n-th offset lies in the band inset by pad
TargetInBand(a, n) ==
    /\ a.y_center + OffsetAt(n, a.step) >= a.band_rect.y0 + a.pad
    /\ a.y_center + OffsetAt(n, a.step) <= a.band_rect.y1 - a.pad
\* the offsets the packer can take: target in the band, clamped rectangle collision-free
TakenOffsets(a) == { n \in ClearOffsets(a) : TargetInBand(a, n) }
\* w or h exceeds the band inset by pad, or one point if the inset is less
Refused(a) ==
    \/ a.w > Max(PT, Width(Inset(a.band_rect, a.pad)))
    \/ a.h > Max(PT, Height(Inset(a.band_rect, a.pad)))

\* C25, amended: _place_in_band returns None if w or h exceeds the larger of the band
\* inset by pad and one point; otherwise it goes through the offsets 0, +step, -step,
\* +2*step, -2*step, ... (at most 2001 rounds), passes over every offset whose target y
\* lies outside the band inset by pad, and returns the candidate of the first
\* remaining offset whose clamped rectangle is collision-free, None if there is none.
\* A returned rectangle has exactly width w and height h and x0 = band.x0 + pad and
\* intersects no placed and no padded text-block rectangle; it lies within the band
\* inset by pad on all sides when neither w nor h exceeds that inset.
BandPackerResultInBand ==
    pc = "done" =>
        /\ Refused(inp) => IsNone(Packed)
        /\ ~Refused(inp) =>
              IF TakenOffsets(inp) = {} THEN IsNone(Packed)
              ELSE Packed = Some(BandMake(inp.band_rect,
                                          inp.y_center + OffsetAt(Least(TakenOffsets(inp)), inp.step),
                                          inp.w, inp.h, inp.pad))
        /\ ~IsNone(Packed) =>
              /\ Width(The(Packed)) = inp.w /\ Height(The(Packed)) = inp.h
              /\ The(Packed).x0 = inp.band_rect.x0 + inp.pad
              /\ ~_intersects_any(The(Packed), inp.placed)
              /\ ~_intersects_any(The(Packed), inp.text_rects)
              /\ ~TooLarge(inp) => Within(The(Packed), Inset(inp.band_rect, inp.pad))

\* the packer moved a note of ordinary size past a note and a text block: of the
\* offsets before the one taken, one collides with a note, one with a text block and
\* one has its target outside the band
BandPackerWitness ==
    /\ pc = "done"
    /\ ~IsNone(Packed)
    /\ inp.h >= 2 * inp.step
    /\ Len(inp.placed) = 2 /\ Len(inp.text_rects) = 1
    /\ inp.w >= 56 * PT
    /\ Least(TakenOffsets(inp)) >= 4
    /\ \E n \in 0..Least(TakenOffsets(inp)) : ~TargetInBand(inp, n)
    /\ \E n \in 0..Least(TakenOffsets(inp)) :
          /\ TargetInBand(inp, n)
          /\ _intersects_any(BandMake(inp.band_rect, inp.y_center + OffsetAt(n, inp.step),
                                       inp.w, inp.h, inp.pad), inp.placed)
    /\ \E n \in 0..Least(TakenOffsets(inp)) :
          /\ TargetInBand(inp, n)
          /\ _intersects_any(BandMake(inp.band_rect, inp.y_center + OffsetAt(n, inp.step),
                                       inp.w, inp.h, inp.pad), inp.text_rects)

\* the passes of the running call that ended with a note from the footer step
FooterNotes == SelectSeq(trace, LAMBDA e : e.outcome = "note" /\ e.path = "footer")
\* the rectangle emitted for the note of pass e
Emitted(e) == The(e.placement).note_rect
\* the note of pass e was pinned by the caller
Overridden(e) == The(e.placement).uid \in DOMAIN fixed_note_rects
\* r is a footer position for pass e: under the block, within its extent, its midpoint
\* within column_footer_max_offset of the hit's center
FooterPlace(r, e) ==
    /\ r.y0 >= e.blk_rect.y1 + Cfg.column_footer_top_gap
    /\ e.blk_rect.x0 <= r.x0 /\ r.x1 <= e.blk_rect.x1
    /\ Abs(MidY(r) - e.cy0) <= Cfg.column_footer_max_offset
\* a footer position left by the footer step is within column_footer_max_offset, and
\* the note of the footer path is at the position the step left
FartherDiscarded ==
    \A i \in 1..Len(trace) :
        /\ ~IsNone(trace[i].footer_pos) =>
              Abs(MidY(The(trace[i].footer_pos)) - trace[i].cy0) <= Cfg.column_footer_max_offset
        /\ (trace[i].outcome = "note" /\ trace[i].path = "footer") =>
              trace[i].pos = trace[i].footer_pos

\* C26: every note finalized through the column-footer path lies below its anchor block
\* (note.y0 >= anchor.y1 + column_footer_top_gap), within the block's horizontal extent,
\* and has its vertical midpoint within column_footer_max_offset of the hit's center; a
\* footer position farther than that is discarded and never emitted.
FooterGeometry ==
    /\ \A i \in 1..Len(FooterNotes) : FooterPlace(Emitted(FooterNotes[i]), FooterNotes[i])
    /\ FartherDiscarded

\* C26, amended: the same for every note finalized through the column-footer path
\* whose uid the caller's override map does not pin.
FooterGeometryUnlessPinned ==
    /\ \A i \in 1..Len(FooterNotes) :
          ~Overridden(FooterNotes[i]) => FooterPlace(Emitted(FooterNotes[i]), FooterNotes[i])
    /\ FartherDiscarded

\* the position the footer step leaves for the first pass of a page when no offset is
\* too far
UnlimitedFooter(e) ==
    FooterStep(CommentFor(Comments, e.q), e.cy0, e.blk_rect, PageBox, <<>>, TextRects,
               [Cfg EXCEPT !.column_footer_max_offset = PageBox.y1]).pos

\* an unpinned note of the footer path in a call whose override map pins a note
FooterGeometryWitness ==
    /\ fixed_note_rects # <<>>
    /\ \E i \in 1..Len(FooterNotes) :
          /\ ~Overridden(FooterNotes[i])
          /\ FooterPlace(Emitted(FooterNotes[i]), FooterNotes[i])

\* the footer step found room under the block for the first hit of the page and
\* dropped it as too far from the hit: the hit has no note from the footer path
FooterDiscardReached ==
    /\ Len(trace) >= 1
    /\ Place(trace[1].tried, "footer") > 0
    /\ IsNone(trace[1].footer_pos)
    /\ ~IsNone(UnlimitedFooter(trace[1]))
    /\ ~(trace[1].outcome = "note" /\ trace[1].path = "footer")

RECURSIVE WordsOfAll(_)
\* the words of a sequence of lines or paragraphs, in order
WordsOfAll(ls) == IF Len(ls) = 0 THEN <<>> ELSE Split(ls[1]) \o WordsOfAll(Tail(ls))
\* the paragraphs of a note text
ParasOf(text) == Paragraphs(SplitLines(text))
\* the paragraph that holds the k-th word of the text
ParaOfWord(text, k) ==
    CHOOSE j \in 1..Len(ParasOf(text)) :
        /\ Len(WordsOfAll(SubSeq(ParasOf(text), 1, j))) >= k
        /\ Len(WordsOfAll(SubSeq(ParasOf(text), 1, j - 1))) < k
\* the places of the first and the last word of line i among the words of the lines
FirstWordOf(lines, i) == Len(WordsOfAll(SubSeq(lines, 1, i - 1))) + 1
LastWordOf(lines, i) == Len(WordsOfAll(SubSeq(lines, 1, i)))
\* lines i and i + 1 are a line and its continuation within one paragraph
Continues(text, lines, i) ==
    /\ Split(lines[i]) # <<>> /\ Split(lines[i + 1]) # <<>>
    /\ ParaOfWord(text, LastWordOf(lines, i)) = ParaOfWord(text, FirstWordOf(lines, i + 1))

\* the result m of the metric wrapper for text, width and fontsize is a greedy wrap
GreedyWrapOf(m, text, width, fontsize) ==
    \* the words of each paragraph, once and in order, no line across two paragraphs, a
    \* line of its own for a paragraph without words
    /\ WordsOfAll(m.lines) = WordsOfAll(ParasOf(text))
    /\ \A i \in 1..Len(m.lines) :
          /\ m.lines[i] = JoinSp(Split(m.lines[i]))
          /\ Split(m.lines[i]) # <<>> =>
                ParaOfWord(text, FirstWordOf(m.lines, i)) = ParaOfWord(text, LastWordOf(m.lines, i))
    /\ Cardinality({ i \in 1..Len(m.lines) : m.lines[i] = <<>> })
          = Cardinality({ j \in 1..Len(ParasOf(text)) : Split(ParasOf(text)[j]) = <<>> })
    \* a line of more than one word is within the width
    /\ \A i \in 1..Len(m.lines) :
          Len(Split(m.lines[i])) > 1 =>
              GetLen(m.lines[i], fontsize) * DefaultCfg.wrap_tightness <= width * 100
    \* a break within a paragraph is forced
    /\ \A i \in 1..(Len(m.lines) - 1) :
          Continues(text, m.lines, i) =>
              GetLen(m.lines[i] \o <<" ">> \o Split(m.lines[i + 1])[1], fontsize)
                  * DefaultCfg.wrap_tightness > width * 100
    \* the height
    /\ m.height * 100
          = Max(2 * fontsize * 100, Len(m.lines) * DefaultCfg.line_height_factor * fontsize)

\* C27: for every text and target width, the lines of the metric wrapper hold the words
\* of each paragraph exactly once and in order; every line of more than one word has
\* measured_width(line) * tightness <= target width; every break between two lines of
\* a paragraph is forced (the next line's first word appended to the line would exceed
\* the target width); and the height is max(2 * fontsize, line_count *
\* line_height_factor * fontsize).
GreedyWrap ==
    (pc = "done" /\ inp.get_text_length) =>
        /\ GreedyWrapOf(trace[1].base, inp.text, inp.w1, inp.f1)
        /\ GreedyWrapOf(trace[1].wider, inp.text, inp.w2, inp.f1)
        /\ GreedyWrapOf(trace[1].smaller, inp.text, inp.w1, inp.f2)

\* a text of two paragraphs wrapped by the metric wrapper: a line of two words, a break
\* within the first paragraph, and fewer lines at the wider width
GreedyWrapWitness ==
    /\ pc = "done" /\ inp.get_text_length
    /\ Len(ParasOf(inp.text)) = 2
    /\ \E i \in 1..Len(trace[1].base.lines) : Len(Split(trace[1].base.lines[i])) = 2
    /\ \E i \in 1..(Len(trace[1].base.lines) - 1) : Continues(inp.text, trace[1].base.lines, i)
    /\ Len(trace[1].wider.lines) < Len(trace[1].base.lines)
    /\ trace[1].base.height > 2 * inp.f1

\* ---- C28 ----
\* the uids of a list of placements are pairwise distinct
DistinctUids(ps) == \A i, j \in 1..Len(ps) : i # j => ps[i].uid # ps[j].uid

\* the merge tolerance of the call is at least 0.01
MergeTolOk == Cfg.merge_duplicate_hits_tol >= 2

\* C28: in a run whose merge_duplicate_hits_tol is at least 0.01 the placements emitted so
\* far, and the list each call returned, carry pairwise distinct uids, so that a uid
\* names at most one note
UidsDistinct ==
    MergeTolOk =>
        /\ DistinctUids(placements)
        /\ \A c \in DOMAIN returned : DistinctUids(returned[c].placements)

\* two occurrences of one text in different blocks whose centers round to the same
\* hundredths: the first has its note, the second was passed over by the merge test at
\* a tolerance of exactly 0.01, and the run has a note on a later page at the same center
UidsDistinctWitness ==
    /\ Cfg.merge_duplicate_hits_tol = 2
    /\ \E i, j \in 1..Len(trace) :
          /\ i < j
          /\ trace[i].page = trace[j].page
          /\ trace[i].outcome = "note" /\ trace[j].outcome = "dup_anchor"
          /\ trace[i].blk_idx # trace[j].blk_idx
          /\ trace[i].cy0 # trace[j].cy0
          /\ _make_uid(trace[i].page, trace[i].norm_ct, MidX(trace[i].hit), trace[i].cy0)
               = _make_uid(trace[j].page, trace[j].norm_ct, MidX(trace[j].hit), trace[j].cy0)
    /\ \E i, j \in 1..Len(placements) :
          /\ placements[i].page_index # placements[j].page_index
          /\ placements[i].uid[2] = placements[j].uid[2]
          /\ placements[i].uid[3] = placements[j].uid[3]
          /\ placements[i].uid[4] = placements[j].uid[4]

\* below the tolerance of 0.01 two notes of one run share a uid
UidsCollideBelowTolerance == ~MergeTolOk /\ ~DistinctUids(placements)

\* ---- C29 ----
\* the decision of the pass is one of the duplicate rejections
RejectedAsDuplicate(o) == o \in {"dup_block", "dup_anchor", "dup_scope"}

\* total_notes is the number of placements emitted so far
NotesCounted == total_notes = Len(placements)

\* the notes and the skips together do not exceed the hits counted
NotesAndSkipsWithinHits == total_notes + total_skipped <= total_hits

\* a pass that ends in a duplicate rejection moves neither counter
DuplicatePassCountsNothing ==
    [][(pc = "hit" /\ RejectedAsDuplicate(Decision.outcome))
          => (total_notes' = total_notes /\ total_skipped' = total_skipped)]_vars

\* C29: at every point of a run, for any list of items, total_notes is the number of
\* placements emitted so far and total_notes + total_skipped is at most total_hits
CountConsistency == NotesCounted /\ NotesAndSkipsWithinHits

\* no quote appears twice in the list of the call
QuotesDistinct ==
    \A i, j \in 1..Len(inp.items) : i # j => inp.items[i].quote # inp.items[j].quote

\* the counts are consistent in the runs whose list names every quote once
CountConsistencyOfDistinctQuotes == QuotesDistinct => CountConsistency

\* ---- C30 ----
\* the vertical midpoint of r is within max_vertical_offset of the center of the hit of
\* pass e and within within_block_pad of the vertical span of its block
NearHitAndBlock(r, e) ==
    /\ Abs(MidY(r) - e.cy0) <= Cfg.max_vertical_offset
    /\ e.blk_rect.y0 - Cfg.within_block_pad <= MidY(r)
    /\ MidY(r) <= e.blk_rect.y1 + Cfg.within_block_pad

\* C30: every note finalized through the gap path without an override has the vertical
\* midpoint of its note_rect within max_vertical_offset of the hit's vertical center
\* and within within_block_pad of the vertical span of the anchor block
GapNoteNearHit ==
    \A i \in 1..Len(GapNotes) :
        ~Overridden(GapNotes[i]) => NearHitAndBlock(Emitted(GapNotes[i]), GapNotes[i])

\* the height the scan found the gap of pass e at, which the Band Packer is centered on
GapHeight(e) == The(e.gap).cy

\* the height y is within max_vertical_offset of the center of the hit of pass e and
\* within within_block_pad of the vertical span of its block
HeightNearHitAndBlock(y, e) ==
    /\ Abs(y - e.cy0) <= Cfg.max_vertical_offset
    /\ e.blk_rect.y0 - Cfg.within_block_pad <= y
    /\ y <= e.blk_rect.y1 + Cfg.within_block_pad

\* C30, amended: every note finalized through the gap path without an override was packed
\* around a height within max_vertical_offset of the hit's vertical center and within
\* within_block_pad of the vertical span of the anchor block; the midpoint of the
\* note_rect is at that height unless the Band Packer moved the note
GapHeightNearHit ==
    \A i \in 1..Len(GapNotes) :
        ~Overridden(GapNotes[i]) =>
            /\ HeightNearHitAndBlock(GapHeight(GapNotes[i]), GapNotes[i])
            /\ (MidY(Emitted(GapNotes[i])) = GapHeight(GapNotes[i])
                  => NearHitAndBlock(Emitted(GapNotes[i]), GapNotes[i]))

\* a note of the gap path that the Band Packer moved past an earlier note of the page,
\* its midpoint more than within_block_pad below its block
GapHeightWitness ==
    \E i \in 1..Len(GapNotes) :
        /\ ~Overridden(GapNotes[i])
        /\ placed # <<>>
        /\ MidY(Emitted(GapNotes[i])) > GapNotes[i].blk_rect.y1 + Cfg.within_block_pad
        /\ HeightNearHitAndBlock(GapHeight(GapNotes[i]), GapNotes[i])

\* a pass whose gap was found too far from the hit or its block and was not taken
GapTooFarReached ==
    \E j \in 1..Len(trace) : ~IsNone(trace[j].found) /\ IsNone(trace[j].gap)

====
